---- MODULE Spec2Model ----
(***************************************************************************)
(* Model of the reconciliation engine of psr_prepare                       *)
(* (src/src/psr_prepare/addon.py): parse_addon_xml, reconcile_requires and *)
(* reconcile_addon; and of the mapping table of the arranger               *)
(* (src/src/arranger/run.py): build_mappings.                              *)
(*                                                                         *)
(* Python strings that are compared or sorted (dependency ids, version     *)
(* strings) are sequences of one-character strings, ordered by code point  *)
(* as Python orders str.  Field values that are only tested for truth and  *)
(* equality are TLA+ strings; None is the Python None.                     *)
(***************************************************************************)
EXTENDS Integers, Sequences, FiniteSets, TLC

VARIABLES
    call,             \* the function called: "reconcile_addon" | "reconcile_requires"
                      \* | "parse_addon_xml" | "build_mappings" | "main"
                      \* | "_parse_addon_xml" | "arrange_templates"
    pc,               \* position of the invocation: "ready" | "done"; in main
                      \* the step that comes next; in arrange_templates "loop"
    strict,           \* the strict argument
    xml_requires,     \* reconcile_requires: first argument
    config_requires,  \* reconcile_requires: second argument
    xml_data,         \* reconcile_addon: first argument (None or AddonXmlData);
                      \* main: addon_xml_data
    config,           \* reconcile_addon: second argument (None or AddonConfig);
                      \* build_mappings: the config dict; main: the loaded config
    addon_xml,        \* parse_addon_xml, main: the file at addon_xml_path
    args,             \* build_mappings, main: the parsed command-line flags;
                      \* arrange_templates: its arguments
    pyproject,        \* psr_prepare main: the file at args.config
    fs,               \* psr_prepare main: the template sources that exist,
                      \* whether the project is writable, what was written;
                      \* arrange_templates: the nodes of the fixture directory
    merged,           \* psr_prepare main: addon_merged and warnings
    placing,          \* arrange_templates: the index of the table entry placed next
    result            \* what the call returned or raised

vars == <<call, pc, strict, xml_requires, config_requires, xml_data, config,
          addon_xml, args, pyproject, fs, merged, placing, result>>

-----------------------------------------------------------------------------
(* Bounds *)

\* longest requirement list passed to reconcile_requires
MaxReqs == 2

-----------------------------------------------------------------------------
(* Python values *)

None == "None"

\* None where the other values are objects (records)
NoneObj == [none |-> TRUE]

IsNone(obj) == DOMAIN obj = {"none"}

NoResult == [kind |-> "none"]

\* code points of the characters that occur in the ids and versions used
Ord == [c \in {".", "0", "1", "2", "d", "e", "p"} |->
          CASE c = "." -> 46 [] c = "0" -> 48 [] c = "1" -> 49 [] c = "2" -> 50
            [] c = "d" -> 100 [] c = "e" -> 101 [] c = "p" -> 112]

\* str.__lt__: lexicographic by code point, a proper prefix is smaller
RECURSIVE StrLess(_, _)
StrLess(a, b) ==
    IF b = <<>> THEN FALSE
    ELSE IF a = <<>> THEN TRUE
    ELSE IF Ord[Head(a)] # Ord[Head(b)] THEN Ord[Head(a)] < Ord[Head(b)]
    ELSE StrLess(Tail(a), Tail(b))

\* variant: the config's version (the second argument) always wins
StrMax_SecondWins(a, b) == b

\* max(a, b) of two str: the first argument unless the second is greater
StrMax(a, b) == IF StrLess(a, b) THEN b ELSE a

\* dict.get(key, default) on a dict modelled as a function
Get(d, key, default) == IF key \in DOMAIN d THEN d[key] ELSE default

\* truth value of an Optional[str] whose str is a character sequence
TruthySeq(s) == s # <<None>> /\ s # <<>>

\* truth value of an Optional[str] field
Truthy(v) == v # None /\ v # ""

-----------------------------------------------------------------------------
(* Inputs of reconcile_requires *)

V_1_0_0  == <<"1", ".", "0", ".", "0">>
V_2_0_0  == <<"2", ".", "0", ".", "0">>
V_1_2_0  == <<"1", ".", "2", ".", "0">>
V_1_10_0 == <<"1", ".", "1", "0", ".", "0">>
Dep1 == <<"d", "e", "p", "1">>
Dep2 == <<"d", "e", "p", "2">>

ReqEntries ==
    {[addon |-> Dep1, version |-> v] : v \in {V_1_0_0, V_2_0_0, V_1_2_0, V_1_10_0}}
    \cup {[addon |-> Dep2, version |-> v] : v \in {V_1_0_0, V_2_0_0}}
    \cup {[addon |-> <<>>, version |-> V_1_0_0]}   \* empty id: skipped
    \cup {[addon |-> Dep2]}                        \* no version key: ""

RECURSIVE SeqsUpTo(_, _)
SeqsUpTo(S, n) ==
    IF n = 0 THEN {<<>>}
    ELSE LET shorter == SeqsUpTo(S, n - 1)
         IN shorter \cup {Append(s, e) : s \in {t \in shorter : Len(t) = n - 1}, e \in S}

ReqLists == SeqsUpTo(ReqEntries, MaxReqs)

-----------------------------------------------------------------------------
(* reconcile_requires *)

\* a requires_dict is a function from dependency ids to version strings
EmptyDict == [k \in {} |-> <<>>]

DictSet(d, k, v) == [x \in DOMAIN d \cup {k} |-> IF x = k THEN v ELSE d[x]]

\* variant: the first loop records the ids without their versions
RECURSIVE LoadXml_DropsVersion(_, _)
LoadXml_DropsVersion(d, reqs) ==
    IF reqs = <<>> THEN d
    ELSE LET req == Head(reqs)
             addon == Get(req, "addon", <<None>>)
         IN LoadXml_DropsVersion(IF TruthySeq(addon)
                                     THEN DictSet(d, addon, <<>>)
                                     ELSE d,
                                 Tail(reqs))

\* first loop: requires_dict[addon] = req.get("version", "") for truthy ids
RECURSIVE LoadXml(_, _)
LoadXml(d, reqs) ==
    IF reqs = <<>> THEN d
    ELSE LET req == Head(reqs)
             addon == Get(req, "addon", <<None>>)
         IN LoadXml(IF TruthySeq(addon)
                        THEN DictSet(d, addon, Get(req, "version", <<>>))
                        ELSE d,
                    Tail(reqs))

\* the warning string of a version conflict, kept as its parts
ReqWarning(addon, xml_version, config_version, higher) ==
    [kind |-> "requires", subject |-> addon, xml |-> xml_version,
     config |-> config_version, using |-> higher]

\* the ValueError of a strict-mode version conflict, kept as its parts
ReqError(addon, xml_version, config_version) ==
    [kind |-> "error", exc |-> "ValueError", about |-> "requires",
     subject |-> addon, xml |-> xml_version, config |-> config_version]

\* second loop: st is [dict, warnings, raised]; a raise ends the loop
RECURSIVE Overlay(_, _, _)
Overlay(st, reqs, isStrict) ==
    IF reqs = <<>> \/ st.raised # NoResult THEN st
    ELSE LET req == Head(reqs)
             addon == Get(req, "addon", <<None>>)
             config_version == Get(req, "version", <<>>)
         IN IF ~TruthySeq(addon) THEN Overlay(st, Tail(reqs), isStrict)
            ELSE IF addon \in DOMAIN st.dict
            THEN LET xml_version == st.dict[addon]
                 IN IF xml_version # config_version
                    THEN IF isStrict
                         THEN [st EXCEPT !.raised =
                                  ReqError(addon, xml_version, config_version)]
                         ELSE LET higher == StrMax(xml_version, config_version)
                              IN Overlay([st EXCEPT
                                            !.warnings = Append(@,
                                                ReqWarning(addon, xml_version,
                                                           config_version, higher)),
                                            !.dict = DictSet(@, addon, higher)],
                                         Tail(reqs), isStrict)
                    ELSE Overlay(st, Tail(reqs), isStrict)
            ELSE Overlay([st EXCEPT !.dict = DictSet(@, addon, config_version)],
                         Tail(reqs), isStrict)

\* variant: sorted(..., reverse=True)
RECURSIVE SortedItems_Reversed(_)
SortedItems_Reversed(d) ==
    IF DOMAIN d = {} THEN <<>>
    ELSE LET k == CHOOSE x \in DOMAIN d : \A y \in DOMAIN d \ {x} : StrLess(y, x)
         IN <<[addon |-> k, version |-> d[k]]>>
            \o SortedItems_Reversed([x \in DOMAIN d \ {k} |-> d[x]])

\* sorted(requires_dict.items()) turned back into a list of entries
RECURSIVE SortedItems(_)
SortedItems(d) ==
    IF DOMAIN d = {} THEN <<>>
    ELSE LET k == CHOOSE x \in DOMAIN d : \A y \in DOMAIN d \ {x} : StrLess(x, y)
         IN <<[addon |-> k, version |-> d[k]]>>
            \o SortedItems([x \in DOMAIN d \ {k} |-> d[x]])

\* variant: the merge appends the config's list to the manifest's
reconcile_requires_Concat(xmlReqs, cfgReqs, isStrict) ==
    [kind |-> "ok", merged |-> xmlReqs \o cfgReqs, warnings |-> <<>>]

\* reconcile_requires: [kind |-> "ok", merged, warnings] or the raised error
reconcile_requires(xmlReqs, cfgReqs, isStrict) ==
    LET st == Overlay([dict |-> LoadXml(EmptyDict, xmlReqs), warnings |-> <<>>,
                       raised |-> NoResult],
                      cfgReqs, isStrict)
    IN IF st.raised # NoResult THEN st.raised
       ELSE [kind |-> "ok", merged |-> SortedItems(st.dict), warnings |-> st.warnings]

-----------------------------------------------------------------------------
(* AddonXmlData and AddonConfig *)

\* the extension elements used as children of the addon.xml root; xml is the
\* text ET.tostring gives for the element
MetadataExt == [point |-> "xbmc.addon.metadata", xml |-> "<extension point=\"xbmc.addon.metadata\"/>"]
PythonExt   == [point |-> "xbmc.python.script", xml |-> "<extension point=\"xbmc.python.script\"/>"]
ServiceExt  == [point |-> "xbmc.service", xml |-> "<extension point=\"xbmc.service\"/>"]
NoPointExt  == [point |-> None, xml |-> "<extension/>"]

EmptyAssets == [k \in {} |-> ""]

\* values of the fields the reconciliation compares
XmlFieldVals == {None, "", "A"}
CfgFieldVals == {None, "A", "B"}
CfgIdVals    == {"", "A", "B"}

\* the rest of a manifest: the fields the reconciliation does not compare,
\* the requirement list and the root element (None, or the element with its
\* extension children in document order)
XmlBodies ==
    { [version |-> None, summary |-> None, disclaimer |-> None, license |-> None,
       source |-> None, assets |-> EmptyAssets, requires |-> <<>>,
       root |-> NoneObj],
      [version |-> "1.0.0", summary |-> "xml summary", disclaimer |-> "xml disclaimer",
       license |-> "xml license", source |-> "xml source",
       assets |-> [icon |-> "xml-icon.png"],
       requires |-> <<[addon |-> Dep1, version |-> V_1_0_0],
                      [addon |-> Dep2, version |-> V_1_0_0]>>,
       root |-> [extensions |-> <<PythonExt, MetadataExt, ServiceExt>>]],
      [version |-> "1.0.0", summary |-> "xml summary", disclaimer |-> None,
       license |-> "xml license", source |-> None,
       assets |-> [icon |-> "xml-icon.png"], requires |-> <<>>,
       root |-> [extensions |-> <<NoPointExt, MetadataExt>>]] }

CfgDescriptive ==
    { [summary |-> None, disclaimer |-> None, license |-> None, source |-> None,
       assets |-> EmptyAssets],
      [summary |-> "cfg summary", disclaimer |-> "cfg disclaimer",
       license |-> "cfg license", source |-> "cfg source",
       assets |-> [icon |-> "cfg-icon.png"]] }

CfgReqLists == { <<>>,
                 <<[addon |-> Dep1, version |-> V_2_0_0]>>,
                 <<[addon |-> Dep2, version |-> V_1_0_0]>> }

XmlNews == {None, "", "news"}

\* AddonXmlData.__init__ followed by assignments to its attributes
AddonXmlDataSet ==
    { [id |-> i, version |-> d.version, name |-> n, provider_name |-> p,
       summary |-> d.summary, description |-> ds, disclaimer |-> d.disclaimer,
       license |-> d.license, source |-> d.source, assets |-> d.assets,
       requires |-> d.requires, news |-> nw, root |-> d.root] :
         i \in XmlFieldVals, n \in XmlFieldVals, p \in XmlFieldVals,
         ds \in XmlFieldVals, d \in XmlBodies, nw \in XmlNews }

\* AddonConfig.__init__
AddonConfigSet ==
    { [id |-> i, name |-> n, provider_name |-> p, description |-> ds,
       summary |-> d.summary, license |-> d.license, disclaimer |-> d.disclaimer,
       source |-> d.source, assets |-> d.assets, requires |-> r] :
         i \in CfgIdVals, n \in CfgFieldVals, p \in CfgFieldVals,
         ds \in CfgFieldVals, d \in CfgDescriptive, r \in CfgReqLists }

\* AddonXmlData.to_dict
to_dict(self) ==
    ("id" :> self.id) @@ ("version" :> self.version) @@ ("name" :> self.name)
    @@ ("provider-name" :> self.provider_name) @@ ("summary" :> self.summary)
    @@ ("description" :> self.description) @@ ("disclaimer" :> self.disclaimer)
    @@ ("license" :> self.license) @@ ("source" :> self.source)
    @@ ("assets" :> self.assets) @@ ("requires" :> self.requires)
    @@ ("news" :> self.news)

\* AddonXmlData.get_unknown_extensions_xml: "".join of the serialized
\* extensions, kept as the sequence of the joined pieces ("" is <<>>)
RECURSIVE JoinUnknown(_)
JoinUnknown(exts) ==
    IF exts = <<>> THEN <<>>
    ELSE LET ext == Head(exts)
         IN (IF Truthy(ext.point) /\ ext.point # "xbmc.addon.metadata"
                THEN <<ext.xml>> ELSE <<>>)
            \o JoinUnknown(Tail(exts))

get_unknown_extensions_xml(self) ==
    IF IsNone(self.root) THEN <<>> ELSE JoinUnknown(self.root.extensions)

-----------------------------------------------------------------------------
(* reconcile_addon *)

\* variant: the loop visits name before id
ConflictFields_NameFirst == <<"name", "id", "provider-name", "description">>

\* the fields compared for conflicts, in the order of the loop
ConflictFields == <<"id", "name", "provider-name", "description">>

\* field.replace("-", "_")
AttrName(field) == IF field = "provider-name" THEN "provider_name" ELSE field

\* getattr(obj, field.replace("-", "_"), None)
GetAttr(obj, field) == Get(obj, AttrName(field), None)

\* variant: the warning reports the two values in each other's place
FieldWarning_Swapped(field, xml_val, config_val) ==
    [kind |-> "field", subject |-> field, xml |-> config_val, config |-> xml_val]

FieldWarning(field, xml_val, config_val) ==
    [kind |-> "field", subject |-> field, xml |-> xml_val, config |-> config_val]

FieldError(field, xml_val, config_val) ==
    [kind |-> "error", exc |-> "ValueError", about |-> "field",
     subject |-> field, xml |-> xml_val, config |-> config_val]

\* variant: the test forgets that an undeclared value conflicts with nothing
IsConflict_NoTruthTest(xml_val, config_val) == xml_val # config_val

\* the test of a conflict between the manifest's and the config's value
IsConflict(xml_val, config_val) ==
    Truthy(xml_val) /\ Truthy(config_val) /\ xml_val # config_val

\* the loop over ConflictFields from index i on; st is [warnings, raised]
RECURSIVE CheckFields(_, _, _, _, _)
CheckFields(st, i, xml, cfg, isStrict) ==
    IF i > Len(ConflictFields) \/ st.raised # NoResult THEN st
    ELSE LET field == ConflictFields[i]
             xml_val == GetAttr(xml, field)
             config_val == GetAttr(cfg, field)
         IN IF IsConflict(xml_val, config_val)
            THEN IF isStrict
                 THEN [st EXCEPT !.raised = FieldError(field, xml_val, config_val)]
                 ELSE CheckFields([st EXCEPT !.warnings =
                                      Append(@, FieldWarning(field, xml_val, config_val))],
                                  i + 1, xml, cfg, isStrict)
            ELSE CheckFields(st, i + 1, xml, cfg, isStrict)

\* variant: merged["summary"] is assigned config.description
ConfigFields_SummarySlip(cfg) ==
    ("id" :> cfg.id) @@ ("name" :> cfg.name)
    @@ ("provider-name" :> cfg.provider_name) @@ ("description" :> cfg.description)
    @@ ("summary" :> cfg.description) @@ ("license" :> cfg.license)
    @@ ("disclaimer" :> cfg.disclaimer) @@ ("source" :> cfg.source)
    @@ ("assets" :> cfg.assets)

\* merged after the assignments of the config's simple fields
ConfigFields(cfg) ==
    ("id" :> cfg.id) @@ ("name" :> cfg.name)
    @@ ("provider-name" :> cfg.provider_name) @@ ("description" :> cfg.description)
    @@ ("summary" :> cfg.summary) @@ ("license" :> cfg.license)
    @@ ("disclaimer" :> cfg.disclaimer) @@ ("source" :> cfg.source)
    @@ ("assets" :> cfg.assets)

\* merged["news"]
MergedNews(xml) == IF ~IsNone(xml) /\ Truthy(xml.news) THEN xml.news ELSE ""

\* merged["unknown_extensions"]
MergedUnknownExtensions(xml) ==
    IF ~IsNone(xml) THEN get_unknown_extensions_xml(xml) ELSE <<>>

EmptyMerged == [k \in {} |-> None]

\* variant: the call omits strict=strict, so that the default (False) applies
MergeRequires_DefaultStrict(xml, cfg, isStrict) ==
    reconcile_requires(IF ~IsNone(xml) THEN xml.requires ELSE <<>>,
                       IF ~IsNone(cfg) THEN cfg.requires ELSE <<>>,
                       FALSE)

\* variant: the call passes strict=True whatever the caller asked for
MergeRequires_AlwaysStrict(xml, cfg, isStrict) ==
    reconcile_requires(IF ~IsNone(xml) THEN xml.requires ELSE <<>>,
                       IF ~IsNone(cfg) THEN cfg.requires ELSE <<>>,
                       TRUE)

\* the call of reconcile_requires on the two records' requirement lists
MergeRequires(xml, cfg, isStrict) ==
    reconcile_requires(IF ~IsNone(xml) THEN xml.requires ELSE <<>>,
                       IF ~IsNone(cfg) THEN cfg.requires ELSE <<>>,
                       isStrict)

\* reconcile_addon: [kind |-> "ok", merged, warnings] or the raised error
reconcile_addon(xml, cfg, isStrict) ==
    IF IsNone(cfg)
    THEN [kind |-> "ok",
          merged |-> IF ~IsNone(xml) THEN to_dict(xml) ELSE EmptyMerged,
          warnings |-> <<>>]
    ELSE LET fst == IF ~IsNone(xml)
                    THEN CheckFields([warnings |-> <<>>, raised |-> NoResult],
                                     1, xml, cfg, isStrict)
                    ELSE [warnings |-> <<>>, raised |-> NoResult]
         IN IF fst.raised # NoResult THEN fst.raised
            ELSE LET req == MergeRequires(xml, cfg, isStrict)
                 IN IF req.kind = "error" THEN req
                    ELSE [kind |-> "ok",
                          merged |-> ConfigFields(cfg)
                                     @@ ("requires" :> req.merged)
                                     @@ ("news" :> MergedNews(xml))
                                     @@ ("unknown_extensions" :>
                                            MergedUnknownExtensions(xml)),
                          warnings |-> fst.warnings \o req.warnings]

-----------------------------------------------------------------------------
(* Calls of reconcile_requires *)

InitRequires ==
    /\ call = "reconcile_requires"
    /\ pc = "ready"
    /\ strict \in BOOLEAN
    /\ xml_requires \in ReqLists
    /\ config_requires \in ReqLists
    /\ xml_data = NoneObj
    /\ config = NoneObj
    /\ addon_xml = NoneObj
    /\ args = NoneObj
    /\ pyproject = NoneObj
    /\ fs = NoneObj
    /\ merged = NoneObj
    /\ placing = 0
    /\ result = NoResult

ReconcileRequires ==
    /\ call = "reconcile_requires"
    /\ pc = "ready"
    /\ result' = reconcile_requires(xml_requires, config_requires, strict)
    /\ pc' = "done"
    /\ UNCHANGED <<call, strict, xml_requires, config_requires, xml_data, config,
                 addon_xml, args, pyproject, fs, merged, placing>>

NextRequires == ReconcileRequires

SpecRequires == InitRequires /\ [][NextRequires]_vars

-----------------------------------------------------------------------------
(* Calls of reconcile_addon *)

Init ==
    /\ call = "reconcile_addon"
    /\ pc = "ready"
    /\ strict \in BOOLEAN
    /\ xml_data \in {NoneObj} \cup AddonXmlDataSet
    /\ config \in {NoneObj} \cup AddonConfigSet
    /\ xml_requires = <<>>
    /\ config_requires = <<>>
    /\ addon_xml = NoneObj
    /\ args = NoneObj
    /\ pyproject = NoneObj
    /\ fs = NoneObj
    /\ merged = NoneObj
    /\ placing = 0
    /\ result = NoResult

ReconcileAddon ==
    /\ call = "reconcile_addon"
    /\ pc = "ready"
    /\ result' = reconcile_addon(xml_data, config, strict)
    /\ pc' = "done"
    /\ UNCHANGED <<call, strict, xml_requires, config_requires, xml_data, config,
                 addon_xml, args, pyproject, fs, merged, placing>>

Next == ReconcileAddon

Spec == Init /\ [][Next]_vars

-----------------------------------------------------------------------------
(* Calls of either function *)

InitAll == Init \/ InitRequires

NextAll == ReconcileAddon \/ ReconcileRequires

SpecAll == InitAll /\ [][NextAll]_vars

-----------------------------------------------------------------------------
(* addon.xml documents and parse_addon_xml *)

\* most import elements inside the root's requires child
MaxImports == 2

NoAttrib == [k \in {} |-> ""]

\* an element of the parsed tree: tag, attributes, text (None when the
\* element has none), children in document order, and the text ET.tostring
\* gives for it (kept for extension elements only)
Element(tag, attrib, text, children, xml) ==
    [tag |-> tag, attrib |-> attrib, text |-> text, children |-> children,
     xml |-> xml]

Leaf(tag, attrib, text) == Element(tag, attrib, text, <<>>, "")

\* <import addon=... version=.../> elements of the root's requires child
ImportElems ==
    { Leaf("import", ("addon" :> Dep1) @@ ("version" :> V_1_0_0), None),
      Leaf("import", ("addon" :> Dep2) @@ ("version" :> V_2_0_0), None),
      Leaf("import", ("addon" :> Dep1), None),
      Leaf("import", ("addon" :> <<>>) @@ ("version" :> V_1_0_0), None) }

\* the root's children named requires: none, or one holding import elements
RootRequires ==
    {<<>>} \cup { <<Element("requires", NoAttrib, None, imports, "")>> :
                    imports \in SeqsUpTo(ImportElems, MaxImports) }

\* <requires addon=... version=.../> elements inside the metadata extension
MetadataRequires ==
    { <<>>,
      <<Leaf("requires", ("addon" :> Dep2) @@ ("version" :> V_1_0_0), None)>>,
      <<Leaf("requires", ("addon" :> Dep2), None),
        Leaf("requires", ("version" :> V_1_0_0), None),
        Leaf("requires", ("addon" :> Dep1) @@ ("version" :> V_1_2_0), None)>> }

MetadataTexts ==
    { <<>>,
      <<Leaf("summary", NoAttrib, "xml summary"),
        Leaf("description", NoAttrib, "A"),
        Leaf("summary", NoAttrib, "second summary")>>,
      <<Leaf("summary", NoAttrib, None), Leaf("license", NoAttrib, "xml license"),
        Leaf("disclaimer", NoAttrib, "xml disclaimer"),
        Leaf("source", NoAttrib, "xml source")>> }

MetadataAssets ==
    { <<>>,
      <<Element("assets", NoAttrib, None,
                <<Leaf("icon", NoAttrib, "xml-icon.png"),
                  Leaf("fanart", NoAttrib, None)>>, "")>> }

MetadataNews ==
    { <<>>, <<Leaf("news", NoAttrib, None)>>, <<Leaf("news", NoAttrib, "news")>> }

\* the root's metadata extension: none, or one with its children
MetadataElems ==
    {<<>>} \cup
    { <<Element("extension", ("point" :> MetadataExt.point), None,
                t \o a \o r \o n, MetadataExt.xml)>> :
        t \in MetadataTexts, a \in MetadataAssets, r \in MetadataRequires,
        n \in MetadataNews }

\* the root's other extension children, placed before the metadata extension
OtherExtensions ==
    { <<>>,
      <<Element("extension", ("point" :> PythonExt.point), None, <<>>,
                PythonExt.xml),
        Element("extension", NoAttrib, None, <<>>, NoPointExt.xml)>> }

RootAttribs ==
    { NoAttrib,
      ("id" :> "A") @@ ("version" :> "1.0.0") @@ ("name" :> "A")
          @@ ("provider-name" :> "A") }

\* what addon_xml_path designates: no file, a file that is not well-formed
\* XML, or a document with its root element
AddonXmlFiles ==
    { [file |-> "missing"], [file |-> "malformed"] } \cup
    { [file |-> "xml",
       root |-> Element("addon", at, None, rq \o ox \o md, "")] :
         at \in RootAttribs, rq \in RootRequires, ox \in OtherExtensions,
         md \in MetadataElems }

\* Element.findall(tag) over the direct children
FindAll(elem, tag) == SelectSeq(elem.children, LAMBDA c : c.tag = tag)

\* Element.find(tag): the first such child, or None
Find(elem, tag) ==
    IF FindAll(elem, tag) = <<>> THEN NoneObj ELSE Head(FindAll(elem, tag))

\* root.find("extension[@point='xbmc.addon.metadata']")
FindMetadata(root) ==
    LET found == SelectSeq(root.children,
                    LAMBDA c : /\ c.tag = "extension"
                               /\ Get(c.attrib, "point", None) = MetadataExt.point)
    IN IF found = <<>> THEN NoneObj ELSE Head(found)

\* the value the loop over the five text tags leaves in the attribute
TextOf(metadata, tag) ==
    IF IsNone(metadata) THEN None
    ELSE LET elem == Find(metadata, tag)
         IN IF ~IsNone(elem) /\ Truthy(elem.text) THEN elem.text ELSE None

\* data.assets after the loop over the children of the assets element
RECURSIVE ParseAssets(_, _)
ParseAssets(assets, children) ==
    IF children = <<>> THEN assets
    ELSE LET child == Head(children)
         IN ParseAssets(IF Truthy(child.text)
                           THEN DictSet(assets, child.tag, child.text)
                           ELSE assets,
                        Tail(children))


\* data.requires after the loop over the given elements
RECURSIVE ParseRequires(_)
ParseRequires(elems) ==
    IF elems = <<>> THEN <<>>
    ELSE LET req_elem == Head(elems)
             addon == Get(req_elem.attrib, "addon", <<None>>)
             version == Get(req_elem.attrib, "version", <<>>)
         IN (IF TruthySeq(addon)
                THEN <<[addon |-> addon, version |-> version]>> ELSE <<>>)
            \o ParseRequires(Tail(elems))

\* data.root, kept as the extension children get_unknown_extensions_xml reads
RootView(root) ==
    LET exts == FindAll(root, "extension")
    IN [extensions |-> [i \in 1..Len(exts) |->
                           [point |-> Get(exts[i].attrib, "point", None),
                            xml |-> exts[i].xml]]]

\* parse_addon_xml: [kind |-> "ok", data] or the raised error
parse_addon_xml(addon_xml_file) ==
    IF addon_xml_file.file = "missing"
    THEN [kind |-> "error", exc |-> "FileNotFoundError"]
    ELSE IF addon_xml_file.file = "malformed"
    THEN [kind |-> "error", exc |-> "ParseError"]
    ELSE LET root == addon_xml_file.root
             metadata == FindMetadata(root)
             assets_elem == IF IsNone(metadata) THEN NoneObj
                            ELSE Find(metadata, "assets")
             news_elem == IF IsNone(metadata) THEN NoneObj
                          ELSE Find(metadata, "news")
         IN [kind |-> "ok",
             data |-> [id |-> Get(root.attrib, "id", None),
                       version |-> Get(root.attrib, "version", None),
                       name |-> Get(root.attrib, "name", None),
                       provider_name |-> Get(root.attrib, "provider-name", None),
                       summary |-> TextOf(metadata, "summary"),
                       description |-> TextOf(metadata, "description"),
                       disclaimer |-> TextOf(metadata, "disclaimer"),
                       license |-> TextOf(metadata, "license"),
                       source |-> TextOf(metadata, "source"),
                       assets |-> IF IsNone(assets_elem) THEN EmptyAssets
                                  ELSE ParseAssets(EmptyAssets, assets_elem.children),
                       requires |-> IF IsNone(metadata) THEN <<>>
                                    ELSE ParseRequires(FindAll(metadata, "requires")),
                       news |-> IF IsNone(news_elem) THEN None
                                ELSE IF Truthy(news_elem.text) THEN news_elem.text
                                ELSE "",
                       root |-> RootView(root)]]

InitParse ==
    /\ call = "parse_addon_xml"
    /\ pc = "ready"
    /\ strict = FALSE
    /\ xml_requires = <<>>
    /\ config_requires = <<>>
    /\ xml_data = NoneObj
    /\ config = NoneObj
    /\ addon_xml \in AddonXmlFiles
    /\ args = NoneObj
    /\ pyproject = NoneObj
    /\ fs = NoneObj
    /\ merged = NoneObj
    /\ placing = 0
    /\ result = NoResult

ParseAddonXml ==
    /\ call = "parse_addon_xml"
    /\ pc = "ready"
    /\ result' = parse_addon_xml(addon_xml)
    /\ pc' = "done"
    /\ UNCHANGED <<call, strict, xml_requires, config_requires, xml_data, config,
                   addon_xml, args, pyproject, fs, merged, placing>>

NextParse == ParseAddonXml

SpecParse == InitParse /\ [][NextParse]_vars

-----------------------------------------------------------------------------
(* The mapping table of the arranger: build_mappings                        *)
(*                                                                          *)
(* A path is the sequence of its segments and separators, "/" being a      *)
(* token of its own: "docs/README.md" is <<"docs", "/", "README.md">> and   *)
(* "" is <<>>.  A config value carries its Python type, t, with its value.  *)

\* most entries of source-mappings
MaxOverrides == 2

Sep == "/"

Backslash == "\\"

Str(s) == [t |-> "str", v |-> s]

\* a bool, its value kept as the sequence holding its repr
Bool(b) == [t |-> "bool", v |-> IF b THEN <<"True">> ELSE <<"False">>]

\* the int 123
IntValue == [t |-> "int", v |-> <<"123">>]

\* the list []
ListValue == [t |-> "list", v |-> <<>>]

\* a dict, as its items in insertion order
DictOf(items) == [t |-> "dict", v |-> items]

\* what config.get(key) returns for a missing key
NoneValue == [t |-> "NoneType", v |-> <<>>]

\* variant: value is not None
PyTruthy_NotNone(value) == value.t # "NoneType"

\* bool(value)
PyTruthy(value) ==
    CASE value.t = "NoneType" -> FALSE
      [] value.t = "bool" -> value.v = <<"True">>
      [] OTHER -> value.v # <<>>

\* f"{a}/{b}"
Join(a, b) == a \o <<Sep>> \o b

\* tok in s
Contains(s, tok) == \E i \in 1..Len(s) : s[i] = tok

\* s.endswith("/")
EndsWithSep(s) == s # <<>> /\ s[Len(s)] = Sep

\* s.rstrip("/")
RECURSIVE RStrip(_)
RStrip(s) == IF EndsWithSep(s) THEN RStrip(SubSeq(s, 1, Len(s) - 1)) ELSE s

DEFAULT_TEMPLATES_DIR == <<"templates">>

DEFAULT_CHANGELOG_DEST == <<"universal", Sep, "CHANGELOG.md.j2">>

DEFAULT_KODI_ADDON_DEST == <<"kodi-addons", Sep, "addon.xml.j2">>

CHANGELOG_NAME == <<"CHANGELOG.md.j2">>

ADDON_XML_NAME == <<"addon.xml.j2">>

ProjectName == <<"script.module.example">>

\* the raised ValueError: what it is about and the key, destination or
\* template path its message names
ConfigError(about, subject) ==
    [kind |-> "error", exc |-> "ValueError", about |-> about, subject |-> subject]

\* expected_types, in the order of the dict
ExpectedTypes ==
    << [key |-> "templates-dir", type |-> "str"],
       [key |-> "use-default-pypi-structure", type |-> "bool"],
       [key |-> "use-default-kodi-addon-structure", type |-> "bool"],
       [key |-> "kodi-project-name", type |-> "str"],
       [key |-> "source-mappings", type |-> "dict"] >>

\* the loop of _validate_config_types from position i on: NoResult when it
\* ends without raising
RECURSIVE CheckTypes(_, _)
CheckTypes(cfg, i) ==
    IF i > Len(ExpectedTypes) THEN NoResult
    ELSE LET key == ExpectedTypes[i].key
         IN IF key \in DOMAIN cfg /\ cfg[key].t # ExpectedTypes[i].type
            THEN ConfigError("type", <<key>>)
            ELSE CheckTypes(cfg, i + 1)

_validate_config_types(cfg) == CheckTypes(cfg, 1)

\* the loop of _validate_config_values over the items of source-mappings
RECURSIVE CheckItemTypes(_)
CheckItemTypes(items) ==
    IF items = <<>> THEN NoResult
    ELSE IF Head(items).dest.t # "str" \/ Head(items).template.t # "str"
    THEN ConfigError("entry-type", Head(items).dest.v)
    ELSE CheckItemTypes(Tail(items))

_validate_config_values(cfg) ==
    LET templates_dir == Get(cfg, "templates-dir", NoneValue)
        kodi_project_name == Get(cfg, "kodi-project-name", NoneValue)
        source_mappings == Get(cfg, "source-mappings", DictOf(<<>>))
    IN IF templates_dir.t # "NoneType" /\ ~PyTruthy(templates_dir)
       THEN ConfigError("value", <<"templates-dir">>)
       ELSE IF /\ templates_dir.t # "NoneType"
               /\ (Contains(templates_dir.v, Sep) \/ Contains(templates_dir.v, Backslash))
       THEN ConfigError("value", <<"templates-dir">>)
       ELSE IF kodi_project_name.t # "NoneType" /\ ~PyTruthy(kodi_project_name)
       THEN ConfigError("value", <<"kodi-project-name">>)
       ELSE IF source_mappings.t # "dict"
       THEN ConfigError("value", <<"source-mappings">>)
       ELSE CheckItemTypes(source_mappings.v)

_validate_config(cfg) ==
    IF _validate_config_types(cfg) # NoResult THEN _validate_config_types(cfg)
    ELSE _validate_config_values(cfg)

\* sum([args.pypi, args.kodi_addon, args.changelog_only])
FlagCount(a) ==
    (IF a.pypi THEN 1 ELSE 0) + (IF a.kodi_addon THEN 1 ELSE 0)
    + (IF a.changelog_only THEN 1 ELSE 0)

_validate_flag_exclusivity(a) ==
    IF FlagCount(a) > 1 THEN ConfigError("flags", <<"flags">>) ELSE NoResult

\* variant: the default mode is the Kodi addon mode
_set_default_flag_Kodi(a) ==
    IF FlagCount(a) = 0 THEN [a EXCEPT !.kodi_addon = TRUE] ELSE a

\* args after _set_default_flag
_set_default_flag(a) ==
    IF FlagCount(a) = 0 THEN [a EXCEPT !.changelog_only = TRUE] ELSE a

\* mappings[key] = value on a dict kept as its items in insertion order
RECURSIVE SetItem(_, _, _)
SetItem(items, key, value) ==
    IF items = <<>> THEN <<[dest |-> key, template |-> value]>>
    ELSE IF Head(items).dest = key
    THEN <<[dest |-> key, template |-> value]>> \o Tail(items)
    ELSE <<Head(items)>> \o SetItem(Tail(items), key, value)

Keys(items) == {items[i].dest : i \in 1..Len(items)}

\* variant: the changelog default is inserted before the Kodi addon default
_build_default_mappings_ChangelogFirst(cfg, a) ==
    LET templates_dir == Get(cfg, "templates-dir", Str(DEFAULT_TEMPLATES_DIR)).v
        kodi_project_name == Get(cfg, "kodi-project-name", NoneValue)
        changelog == SetItem(<<>>, Join(templates_dir, CHANGELOG_NAME),
                             DEFAULT_CHANGELOG_DEST)
        mappings ==
            IF a.kodi_addon
               \/ PyTruthy(Get(cfg, "use-default-kodi-addon-structure", NoneValue))
            THEN IF PyTruthy(kodi_project_name)
                 THEN SetItem(changelog,
                              Join(Join(templates_dir, kodi_project_name.v),
                                   ADDON_XML_NAME),
                              DEFAULT_KODI_ADDON_DEST)
                 ELSE SetItem(changelog, Join(templates_dir, ADDON_XML_NAME),
                              DEFAULT_KODI_ADDON_DEST)
            ELSE changelog
    IN [mappings |-> mappings, reserved |-> Keys(mappings)]

\* _build_default_mappings: the default items and the reserved destinations
_build_default_mappings(cfg, a) ==
    LET templates_dir == Get(cfg, "templates-dir", Str(DEFAULT_TEMPLATES_DIR)).v
        kodi_project_name == Get(cfg, "kodi-project-name", NoneValue)
        kodi ==
            IF a.kodi_addon
               \/ PyTruthy(Get(cfg, "use-default-kodi-addon-structure", NoneValue))
            THEN IF PyTruthy(kodi_project_name)
                 THEN SetItem(<<>>,
                              Join(Join(templates_dir, kodi_project_name.v),
                                   ADDON_XML_NAME),
                              DEFAULT_KODI_ADDON_DEST)
                 ELSE SetItem(<<>>, Join(templates_dir, ADDON_XML_NAME),
                              DEFAULT_KODI_ADDON_DEST)
            ELSE <<>>
        mappings == SetItem(kodi, Join(templates_dir, CHANGELOG_NAME),
                            DEFAULT_CHANGELOG_DEST)
    IN [mappings |-> mappings, reserved |-> Keys(mappings)]

\* variant: the destination needs no separator and may end in one
DestFormatError_Unchecked(dest) ==
    IF dest = <<>> THEN "dest-format" ELSE "none"

\* the first two tests on a destination: which error they raise, if any
DestFormatError(dest) ==
    IF dest = <<>> \/ ~Contains(RStrip(dest), Sep) THEN "dest-format"
    ELSE IF EndsWithSep(dest) THEN "dest-directory"
    ELSE "none"

\* variant: a template source may be any string
TemplateFormatError_Unchecked(template_path) == FALSE

\* the test on a template source
TemplateFormatError(template_path) ==
    template_path = <<>> \/ EndsWithSep(template_path)

\* variant: reserved destinations are not protected
IsReserved_Never(dest, reserved_destinations) == FALSE

\* the test against the reserved destinations
IsReserved(dest, reserved_destinations) == dest \in reserved_destinations

\* _validate_custom_mappings: the loop over the items, NoResult when it ends
\* without raising
RECURSIVE _validate_custom_mappings(_, _)
_validate_custom_mappings(items, reserved_destinations) ==
    IF items = <<>> THEN NoResult
    ELSE LET dest == Head(items).dest.v
             template_path == Head(items).template.v
         IN IF DestFormatError(dest) # "none"
            THEN ConfigError(DestFormatError(dest), dest)
            ELSE IF TemplateFormatError(template_path)
            THEN ConfigError("template-format", template_path)
            ELSE IF IsReserved(dest, reserved_destinations)
            THEN ConfigError("reserved", dest)
            ELSE _validate_custom_mappings(Tail(items), reserved_destinations)

\* mappings.update(source_mappings)
RECURSIVE Update(_, _)
Update(mappings, items) ==
    IF items = <<>> THEN mappings
    ELSE Update(SetItem(mappings, Head(items).dest.v, Head(items).template.v),
                Tail(items))

\* build_mappings: [kind |-> "ok", table, reserved] or the raised error;
\* table is the returned dict as its items in insertion order, reserved the
\* local reserved_destinations, args the namespace as the call leaves it
build_mappings(cfg, a) ==
    IF _validate_config(cfg) # NoResult
    THEN _validate_config(cfg) @@ [args |-> a]
    ELSE IF _validate_flag_exclusivity(a) # NoResult
    THEN _validate_flag_exclusivity(a) @@ [args |-> a]
    ELSE LET a1 == _set_default_flag(a)
             defaults == _build_default_mappings(cfg, a1)
             source_mappings == Get(cfg, "source-mappings", DictOf(<<>>)).v
             invalid == _validate_custom_mappings(source_mappings, defaults.reserved)
         IN IF invalid # NoResult THEN invalid @@ [args |-> a1]
            ELSE [kind |-> "ok", table |-> Update(defaults.mappings, source_mappings),
                  reserved |-> defaults.reserved, args |-> a1]

\* the flags of the command line
ArgsSet == [pypi : BOOLEAN, kodi_addon : BOOLEAN, changelog_only : BOOLEAN]

\* items of source-mappings: destinations that are well formed, that a
\* default mode may reserve, or that are malformed, with a template source;
\* and malformed or wrongly typed template sources
OverrideItems ==
    { [dest |-> Str(d), template |-> Str(<<"universal", Sep, "README.md.j2">>)] :
        d \in { <<"docs", Sep, "README.md">>,
                <<"src", Sep, "pkg", Sep, "a.py">>,
                <<"templates", Sep, "CHANGELOG.md.j2">>,
                <<"custom", Sep, "CHANGELOG.md.j2">>,
                <<"templates", Sep, "addon.xml.j2">>,
                <<"templates", Sep, "script.module.example", Sep, "addon.xml.j2">>,
                <<>>,
                <<"file.txt">>,
                <<"dir", Sep>>,
                <<"dir", Sep, "sub", Sep>> } }
    \cup
    { [dest |-> Str(<<"docs", Sep, "README.md">>), template |-> t] :
        t \in { Str(<<>>), Str(<<"universal", Sep>>), Str(<<"readme.j2">>),
                IntValue } }
    \cup
    { [dest |-> IntValue, template |-> Str(<<"universal", Sep, "README.md.j2">>)],
      [dest |-> Str(<<"templates", Sep, "CHANGELOG.md.j2">>),
       template |-> Str(<<>>)] }

\* the dicts source-mappings can be: items in insertion order, keys distinct
SourceMappings ==
    { items \in SeqsUpTo(OverrideItems, MaxOverrides) :
        \A i \in 1..Len(items), j \in 1..Len(items) :
            items[i].dest = items[j].dest => i = j }

EmptyConfig == [k \in {} |-> NoneValue]

\* the scalar keys of [tool.arranger] with values of the expected types that
\* pass the value checks
ValidScalars ==
    { td @@ py @@ ks @@ pn :
        td \in { EmptyConfig, "templates-dir" :> Str(<<"custom">>) },
        py \in { EmptyConfig, "use-default-pypi-structure" :> Bool(TRUE) },
        ks \in { EmptyConfig, "use-default-kodi-addon-structure" :> Bool(TRUE),
                 "use-default-kodi-addon-structure" :> Bool(FALSE) },
        pn \in { EmptyConfig, "kodi-project-name" :> Str(ProjectName) } }

\* a key with a value of the wrong type or a value the checks reject
BadScalars ==
    { "templates-dir" :> IntValue,
      "templates-dir" :> Str(<<>>),
      "templates-dir" :> Str(<<"path", Sep, "to">>),
      "templates-dir" :> Str(<<"path", Backslash, "to">>),
      "use-default-pypi-structure" :> Str(<<"yes">>),
      "use-default-kodi-addon-structure" :> IntValue,
      "kodi-project-name" :> ListValue,
      "kodi-project-name" :> Str(<<>>) }

\* configs with one rejected scalar, alone, beside valid keys, or beside a
\* second rejected one
InvalidScalars ==
    { bad @@ base : bad \in BadScalars,
                    base \in { EmptyConfig,
                               ("use-default-kodi-addon-structure" :> Bool(TRUE))
                                   @@ ("kodi-project-name" :> Str(ProjectName)) } }
    \cup { ("templates-dir" :> Str(<<>>)) @@ ("kodi-project-name" :> ListValue),
           ("templates-dir" :> Str(<<>>)) @@ ("kodi-project-name" :> Str(<<>>)) }

\* configs holding a key that is not in VALID_CONFIG_KEYS (load_config warns
\* about it and keeps it): kodi-addon-directory
UnknownKeyScalars ==
    { other @@ base :
        other \in { "kodi-addon-directory" :> Str(ProjectName),
                    "kodi-addon-directory" :> Str(<<>>),
                    "kodi-addon-directory" :> ListValue },
        base \in { EmptyConfig,
                   "use-default-kodi-addon-structure" :> Bool(TRUE) } }

\* the [tool.arranger] tables passed to build_mappings: load_config sets
\* source-mappings to {} when the table lacks it; a caller's dict may lack it
ArrangerConfigs ==
    { sc @@ sm : sc \in ValidScalars \cup InvalidScalars \cup UnknownKeyScalars,
                 sm \in { EmptyConfig, "source-mappings" :> ListValue }
                        \cup { "source-mappings" :> DictOf(items) :
                                 items \in SourceMappings } }

InitMappings ==
    /\ call = "build_mappings"
    /\ pc = "ready"
    /\ strict = FALSE
    /\ xml_requires = <<>>
    /\ config_requires = <<>>
    /\ xml_data = NoneObj
    /\ config \in ArrangerConfigs
    /\ addon_xml = NoneObj
    /\ args \in ArgsSet
    /\ pyproject = NoneObj
    /\ fs = NoneObj
    /\ merged = NoneObj
    /\ placing = 0
    /\ result = NoResult

BuildMappings ==
    /\ call = "build_mappings"
    /\ pc = "ready"
    /\ result' = build_mappings(config, args)
    /\ pc' = "done"
    /\ UNCHANGED <<call, strict, xml_requires, config_requires, xml_data, config,
                   addon_xml, args, pyproject, fs, merged, placing>>

NextMappings == BuildMappings

SpecMappings == InitMappings /\ [][NextMappings]_vars

-----------------------------------------------------------------------------
(* psr_prepare main (src/src/psr_prepare/cli.py), one step of its body per  *)
(* action                                                                   *)

\* ChangelogConfig.__init__ on the [tool.psr-prepare.changelog] table;
\* news_types is kept as what validate finds in it
ChangelogConfigs ==
    { [file |-> "CHANGELOG.md", mode |-> m, news_types |-> n] :
        m \in {"update", "init"}, n \in {"dict of str"} }
    \cup { [file |-> "CHANGELOG.md", mode |-> "append", news_types |-> "dict of str"],
           [file |-> "CHANGELOG.md", mode |-> "update", news_types |-> "list"],
           [file |-> "CHANGELOG.md", mode |-> "update",
            news_types |-> "dict with int label"] }

\* AddonConfig.__init__ on the [tool.psr-prepare.addon] table
MainAddonConfigs ==
    { [id |-> i, name |-> n, provider_name |-> None, description |-> None,
       summary |-> d.summary, license |-> d.license, disclaimer |-> d.disclaimer,
       source |-> d.source, assets |-> d.assets, requires |-> r] :
         i \in CfgIdVals, n \in {None, "A"}, d \in CfgDescriptive,
         r \in CfgReqLists }

\* the file at args.config: missing, not valid TOML, or a document with its
\* [tool.psr-prepare] sections as load_config builds them
PyprojectFiles ==
    { [file |-> "missing"], [file |-> "invalid toml"] } \cup
    { [file |-> "toml", addon |-> a, changelog |-> c] :
        a \in {NoneObj} \cup MainAddonConfigs,
        c \in {NoneObj} \cup ChangelogConfigs }

\* the file at <project_root>/<addon id>/addon.xml
MainAddonXmlFiles ==
    { [file |-> "missing"], [file |-> "malformed"] } \cup
    { [file |-> "xml",
       root |-> Element("addon", at, None, ox \o md, "")] :
         at \in RootAttribs, ox \in OtherExtensions,
         md \in { <<Element("extension", ("point" :> MetadataExt.point), None,
                            r \o n, MetadataExt.xml)>> :
                    r \in MetadataRequires, n \in MetadataNews } }

\* args.strict and args.dry_run
MainArgs == [strict : BOOLEAN, dry_run : BOOLEAN]

\* the project's files: which template source directories exist, whether
\* the project directory can be written, and what has been written
FileSystems ==
    [universal_src : BOOLEAN, addon_src : BOOLEAN, writable : BOOLEAN,
     written : {{}}]

\* AddonConfig.validate
AddonValidate(addon) ==
    IF ~Truthy(addon.id) THEN <<"addon.id is required">> ELSE <<>>

\* ChangelogConfig.validate
ChangelogValidate(changelog) ==
    (IF changelog.mode \notin {"init", "update"}
        THEN <<"changelog.mode must be 'init' or 'update'">> ELSE <<>>)
    \o (IF changelog.news_types = "list"
           THEN <<"changelog.news_types must be a dict">>
        ELSE IF changelog.news_types = "dict with int label"
           THEN <<"changelog.news_types[...] must be a string">>
        ELSE <<>>)

\* PsrPrepareConfig.validate
Validate(cfg) ==
    (IF ~IsNone(cfg.addon) THEN AddonValidate(cfg.addon) ELSE <<>>)
    \o (IF ~IsNone(cfg.changelog) THEN ChangelogValidate(cfg.changelog) ELSE <<>>)

\* load_config: [kind |-> "ok", config] or the raised error
load_config(file) ==
    IF file.file = "missing" THEN [kind |-> "error", exc |-> "FileNotFoundError"]
    ELSE IF file.file = "invalid toml"
    THEN [kind |-> "error", exc |-> "ValueError"]
    ELSE LET cfg == [addon |-> file.addon, changelog |-> file.changelog]
         IN IF Validate(cfg) # <<>> THEN [kind |-> "error", exc |-> "ValueError"]
            ELSE [kind |-> "ok", config |-> cfg]

\* variant: a ValueError leaves with the code of the parse failure
ExitCodeFor_ValueErrorAsParse(exc) ==
    CASE exc = "FileNotFoundError" -> 1
      [] exc = "ValueError" -> 2
      [] OTHER -> 1

\* the except clauses that close main's try block
ExitCodeFor(exc) ==
    CASE exc = "FileNotFoundError" -> 1
      [] exc = "ValueError" -> 1
      [] OTHER -> 1

Exit(code, exc) == [kind |-> "exit", code |-> code, exc |-> exc]

\* Python's binding of a call's arguments to the parameters of a def: the
\* exception it raises, or "none"; required is the number of parameters
\* without default
BindArguments(params, required, npositional, keywords) ==
    IF npositional > Len(params) THEN "TypeError"
    ELSE IF \E k \in keywords :
               \A i \in 1..Len(params) : params[i] # k
    THEN "TypeError"
    ELSE IF \E i \in 1..npositional : params[i] \in keywords THEN "TypeError"
    ELSE IF \E i \in (npositional + 1)..required : params[i] \notin keywords
    THEN "TypeError"
    ELSE "none"

\* def write_addon_context(addon_data, news_types=None,
\*                         universal_templates_dir=None, addon_templates_dir=None)
write_addon_context_params ==
    <<"addon_data", "news_types", "universal_templates_dir", "addon_templates_dir">>

\* def write_changelog_context(config, changelog_exists)
write_changelog_context_params == <<"config", "changelog_exists">>

\* def copy_universal_templates(source_dir, target_dir, addon_data=None,
\*                              news_types=None)
copy_universal_templates_params ==
    <<"source_dir", "target_dir", "addon_data", "news_types">>

\* def copy_addon_templates(source_dir, target_dir, addon_config,
\*                          addon_data=None, news_types=None)
copy_addon_templates_params ==
    <<"source_dir", "target_dir", "addon_config", "addon_data", "news_types">>

\* the outcome of a step that may write: the exception raised ("none" when it
\* returns) and the file system it leaves
Outcome(exc, files) == [exc |-> exc, fs |-> files]

\* write_addon_context(context_dir, addon_merged, news_types=news_types):
\* neither template directory is passed, so a bound call writes nothing
CallWriteAddonContext(files) ==
    Outcome(BindArguments(write_addon_context_params, 1, 2, {"news_types"}), files)

\* write_changelog_context(context_dir, config.changelog, changelog_exists)
CallWriteChangelogContext(files) ==
    Outcome(BindArguments(write_changelog_context_params, 2, 3, {}), files)

\* a directory's mkdir and the copies into it
WriteInto(files, target) ==
    IF ~files.writable THEN Outcome("PermissionError", files)
    ELSE Outcome("none", [files EXCEPT !.written = @ \cup {target}])

\* copy_universal_templates(source_templates_dir, templates_dir)
CallCopyUniversal(files) ==
    IF BindArguments(copy_universal_templates_params, 2, 2, {}) # "none"
    THEN Outcome("TypeError", files)
    ELSE IF ~files.universal_src THEN Outcome("none", files)
    ELSE WriteInto(files, "templates")

\* copy_addon_templates(source_templates_dir, templates_dir, config.addon)
CallCopyAddon(files) ==
    IF BindArguments(copy_addon_templates_params, 3, 3, {}) # "none"
    THEN Outcome("TypeError", files)
    ELSE IF ~files.addon_src THEN Outcome("none", files)
    ELSE WriteInto(files, "templates/<addon id>")

\* the import elements of the root's requires child, as the loop appends them
ImportInfos(elems) ==
    [i \in 1..Len(elems) |->
        [addon |-> Get(elems[i].attrib, "addon", <<None>>),
         version |-> Get(elems[i].attrib, "version", <<None>>)]]

\* what a call of arranger's _parse_addon_xml gives: the value returned and
\* the lines printed to stderr
Returned(value, stderr) == [kind |-> "return", value |-> value, stderr |-> stderr]

\* variant: the ParseError is not caught
_parse_addon_xml_Raises(addon_xml_file) ==
    IF addon_xml_file.file = "missing" THEN Returned(NoneObj, <<>>)
    ELSE IF addon_xml_file.file = "malformed"
    THEN [kind |-> "error", exc |-> "ParseError", stderr |-> <<>>]
    ELSE Returned([id |-> Get(addon_xml_file.root.attrib, "id", None)], <<>>)

\* arranger's _parse_addon_xml
_parse_addon_xml(addon_xml_file) ==
    IF addon_xml_file.file = "missing" THEN Returned(NoneObj, <<>>)
    ELSE IF addon_xml_file.file = "malformed"
    THEN Returned(NoneObj, <<"Warning: Failed to parse addon.xml">>)
    ELSE LET root == addon_xml_file.root
             requires_elem == Find(root, "requires")
         IN Returned([id |-> Get(root.attrib, "id", None),
                      name |-> Get(root.attrib, "name", None),
                      version |-> Get(root.attrib, "version", None),
                      provider_name |-> Get(root.attrib, "provider-name", None),
                      requires |-> IF IsNone(requires_elem) THEN <<>>
                                   ELSE ImportInfos(FindAll(requires_elem, "import"))],
                     <<>>)

\* a call of arranger's _parse_addon_xml on the same kinds of file
InitArrangerParse ==
    /\ call = "_parse_addon_xml"
    /\ pc = "ready"
    /\ strict = FALSE
    /\ xml_requires = <<>>
    /\ config_requires = <<>>
    /\ xml_data = NoneObj
    /\ config = NoneObj
    /\ addon_xml \in AddonXmlFiles
    /\ args = NoneObj
    /\ pyproject = NoneObj
    /\ fs = NoneObj
    /\ merged = NoneObj
    /\ placing = 0
    /\ result = NoResult

ArrangerParseAddonXml ==
    /\ call = "_parse_addon_xml" /\ pc = "ready"
    /\ result' = _parse_addon_xml(addon_xml)
    /\ pc' = "done"
    /\ UNCHANGED <<call, strict, xml_requires, config_requires, xml_data, config,
                   addon_xml, args, pyproject, fs, merged, placing>>

InitMainCall ==
    /\ call = "main"
    /\ pc = "load_config"
    /\ strict = FALSE
    /\ xml_requires = <<>>
    /\ config_requires = <<>>
    /\ xml_data = NoneObj
    /\ config = NoneObj
    /\ addon_xml \in MainAddonXmlFiles
    /\ args \in MainArgs
    /\ pyproject \in PyprojectFiles
    /\ fs \in FileSystems
    /\ merged = [addon_merged |-> EmptyMerged, warnings |-> <<>>]
    /\ placing = 0
    /\ result = NoResult

\* variant: the universal templates are copied as soon as the config is loaded
MainLoadConfig_CopiesFirst ==
    /\ call = "main" /\ pc = "load_config"
    /\ LET loaded == load_config(pyproject)
       IN IF loaded.kind = "error"
          THEN /\ result' = Exit(ExitCodeFor(loaded.exc), loaded.exc)
               /\ pc' = "done"
               /\ UNCHANGED <<config, fs>>
          ELSE /\ config' = loaded.config
               /\ fs' = IF args.dry_run THEN fs ELSE CallCopyUniversal(fs).fs
               /\ pc' = "parse"
               /\ UNCHANGED result
    /\ UNCHANGED <<call, strict, xml_requires, config_requires, xml_data,
                   addon_xml, args, pyproject, merged, placing>>

\* 1. Load configuration
MainLoadConfig ==
    /\ call = "main" /\ pc = "load_config"
    /\ LET loaded == load_config(pyproject)
       IN IF loaded.kind = "error"
          THEN /\ result' = Exit(ExitCodeFor(loaded.exc), loaded.exc)
               /\ pc' = "done"
               /\ UNCHANGED config
          ELSE /\ config' = loaded.config
               /\ pc' = "parse"
               /\ UNCHANGED result
    /\ UNCHANGED <<call, strict, xml_requires, config_requires, xml_data,
                   addon_xml, args, pyproject, fs, merged, placing>>

\* 3. Parse addon.xml if config asks for it
MainParseAddonXml ==
    /\ call = "main" /\ pc = "parse"
    /\ IF IsNone(config.addon)
       THEN pc' = "addon_context" /\ UNCHANGED <<xml_data, result>>
       ELSE IF addon_xml.file = "missing"
       THEN pc' = "reconcile" /\ UNCHANGED <<xml_data, result>>
       ELSE LET parsed == parse_addon_xml(addon_xml)
            IN IF parsed.kind = "error"
               THEN /\ result' = Exit(2, parsed.exc)
                    /\ pc' = "done"
                    /\ UNCHANGED xml_data
               ELSE /\ xml_data' = parsed.data
                    /\ pc' = "reconcile"
                    /\ UNCHANGED result
    /\ UNCHANGED <<call, strict, xml_requires, config_requires, config,
                   addon_xml, args, pyproject, fs, merged, placing>>

\* 4. Reconcile addon config
MainReconcile ==
    /\ call = "main" /\ pc = "reconcile"
    /\ LET reconciled == reconcile_addon(xml_data, config.addon, args.strict)
       IN IF reconciled.kind = "error"
          THEN /\ result' = Exit(3, reconciled.exc)
               /\ pc' = "done"
               /\ UNCHANGED merged
          ELSE /\ merged' = [addon_merged |-> reconciled.merged,
                             warnings |-> reconciled.warnings]
               /\ pc' = "addon_context"
               /\ UNCHANGED result
    /\ UNCHANGED <<call, strict, xml_requires, config_requires, xml_data, config,
                   addon_xml, args, pyproject, fs, placing>>

\* variant: the step does not look at args.dry_run
WriteStep_IgnoresDryRun(applies, outcome, next) ==
    IF ~applies
    THEN pc' = next /\ UNCHANGED <<fs, result>>
    ELSE /\ fs' = outcome.fs
         /\ IF outcome.exc # "none"
            THEN result' = Exit(ExitCodeFor(outcome.exc), outcome.exc) /\ pc' = "done"
            ELSE pc' = next /\ UNCHANGED result

\* a step of sections 5 and 6: skipped or only logged in a dry run, else the
\* call is made; an exception leaves through the except clauses
WriteStep(applies, outcome, next) ==
    IF ~applies \/ args.dry_run
    THEN pc' = next /\ UNCHANGED <<fs, result>>
    ELSE /\ fs' = outcome.fs
         /\ IF outcome.exc # "none"
            THEN result' = Exit(ExitCodeFor(outcome.exc), outcome.exc) /\ pc' = "done"
            ELSE pc' = next /\ UNCHANGED result

\* 5. Write context JSON: the addon context
MainWriteAddonContext ==
    /\ call = "main" /\ pc = "addon_context"
    /\ WriteStep(~IsNone(config.addon), CallWriteAddonContext(fs),
                 "changelog_context")
    /\ UNCHANGED <<call, strict, xml_requires, config_requires, xml_data, config,
                   addon_xml, args, pyproject, merged, placing>>

\* 5. Write context JSON: the changelog context
MainWriteChangelogContext ==
    /\ call = "main" /\ pc = "changelog_context"
    /\ WriteStep(~IsNone(config.changelog), CallWriteChangelogContext(fs),
                 "copy_universal")
    /\ UNCHANGED <<call, strict, xml_requires, config_requires, xml_data, config,
                   addon_xml, args, pyproject, merged, placing>>

\* 6. Copy templates: the universal templates
MainCopyUniversal ==
    /\ call = "main" /\ pc = "copy_universal"
    /\ WriteStep(TRUE, CallCopyUniversal(fs), "copy_addon")
    /\ UNCHANGED <<call, strict, xml_requires, config_requires, xml_data, config,
                   addon_xml, args, pyproject, merged, placing>>

\* 6. Copy templates: the addon templates
MainCopyAddon ==
    /\ call = "main" /\ pc = "copy_addon"
    /\ WriteStep(~IsNone(config.addon), CallCopyAddon(fs), "report")
    /\ UNCHANGED <<call, strict, xml_requires, config_requires, xml_data, config,
                   addon_xml, args, pyproject, merged, placing>>

\* 7. Report warnings if any, and return 0
MainReturn ==
    /\ call = "main" /\ pc = "report"
    /\ result' = Exit(0, "none")
    /\ pc' = "done"
    /\ UNCHANGED <<call, strict, xml_requires, config_requires, xml_data, config,
                   addon_xml, args, pyproject, fs, merged, placing>>

\* the two entry points that read an existing addon.xml
InitMain == InitMainCall \/ InitArrangerParse

NextMain ==
    \/ ArrangerParseAddonXml
    \/ MainLoadConfig
    \/ MainParseAddonXml
    \/ MainReconcile
    \/ MainWriteAddonContext
    \/ MainWriteChangelogContext
    \/ MainCopyUniversal
    \/ MainCopyAddon
    \/ MainReturn

SpecMain == InitMain /\ [][NextMain]_vars


-----------------------------------------------------------------------------
(* arranger's arrange_templates (src/src/arranger/run.py), one table entry  *)
(* per step                                                                 *)

\* the most entries a table has
MaxEntries == 2

\* destinations relative to the fixture directory
ChangelogFile == "CHANGELOG.md"
AddonFile == "script.module.example/addon.xml"
ReadmeFile == "README.md"
Destinations == {ChangelogFile, AddonFile, ReadmeFile}

\* a file outside the table, and a path whose directory does not exist
OutsideFile == "../target.txt"
NoDirFile == "../nodir/target.txt"
FilePaths == Destinations \cup {OutsideFile, NoDirFile}

\* what is at a path: nothing, a regular file with its content, a directory,
\* a symlink with the path it points to, or nothing and no directory for it
Node(kind, content, target) == [kind |-> kind, content |-> content, target |-> target]
Absent == Node("absent", "", "")
RegularFile(content) == Node("file", content, "")
Directory == Node("dir", "", "")
Symlink(target) == Node("symlink", "", target)
NoDirectory == Node("nodir", "", "")

OldContent == "old content"

\* the templates package: a template that exists, a directory, and no entry
\* under the third name
ChangelogTemplate == "universal/CHANGELOG.md.j2"
TemplateDirectory == "universal"
MissingTemplate == "universal/MISSING.j2"
TemplateNames == {ChangelogTemplate, TemplateDirectory, MissingTemplate}

\* the text read_text gives for a template that exists
ContentOf(template_path) == template_path

\* the tables: up to MaxEntries entries with distinct destinations
TablesOfLen(n) ==
    { m \in [1..n -> [dest : Destinations, template : TemplateNames]] :
        \A i, j \in 1..n : i # j => m[i].dest # m[j].dest }

MappingTables == UNION { TablesOfLen(n) : n \in 0..MaxEntries }

\* the arguments of arrange_templates
ArrangeArgs ==
    [fixture_dir : {"fixture"}, mappings : MappingTables, override : BOOLEAN]
    \cup { [fixture_dir |-> None,
            mappings |-> <<[dest |-> ChangelogFile, template |-> ChangelogTemplate]>>,
            override |-> TRUE] }

\* the nodes a path can hold when the call begins; a symlink points to a
\* path that holds no symlink
NodesAt(p) ==
    IF p = NoDirFile THEN {NoDirectory}
    ELSE IF p = OutsideFile THEN {Absent, RegularFile(OldContent)}
    ELSE {Absent, RegularFile(OldContent), Directory}
         \cup { Symlink(t) : t \in FilePaths \ {p} }

FixtureNodes ==
    { n \in [FilePaths -> UNION { NodesAt(p) : p \in FilePaths }] :
        /\ \A p \in FilePaths : n[p] \in NodesAt(p)
        /\ \A p \in FilePaths :
              n[p].kind = "symlink" => n[n[p].target].kind # "symlink" }

\* the fixture directory: its nodes, whether entries can be created in and
\* removed from its directories, and the nodes it had when the call began
Fixtures ==
    { [nodes |-> n, writable |-> w, before |-> n] :
        n \in FixtureNodes, w \in BOOLEAN }

\* the path a write to p reaches: a symlink is followed
Resolve(nodes, p) == IF nodes[p].kind = "symlink" THEN nodes[p].target ELSE p

\* Path.exists, which follows symlinks
Exists(nodes, p) == nodes[Resolve(nodes, p)].kind \in {"file", "dir"}

\* Path.is_symlink
IsSymlink(nodes, p) == nodes[p].kind = "symlink"

Raised(exc) == [kind |-> "error", exc |-> exc]

\* _read_template_content: [kind |-> "ok", content] or the raised error
_read_template_content(template_path) ==
    IF template_path = MissingTemplate THEN Raised("FileNotFoundError")
    ELSE IF template_path = TemplateDirectory THEN Raised("ValueError")
    ELSE [kind |-> "ok", content |-> ContentOf(template_path)]

\* _handle_existing_destination
_handle_existing_destination(files, dst, override) ==
    IF ~Exists(files.nodes, dst) THEN Outcome("none", files)
    ELSE IF IsSymlink(files.nodes, dst)
    THEN IF ~override THEN Outcome("FileExistsError", files)
         ELSE IF ~files.writable THEN Outcome("PermissionError", files)
         ELSE Outcome("none", [files EXCEPT !.nodes[dst] = Absent])
    ELSE IF ~override THEN Outcome("FileExistsError", files)
    ELSE Outcome("none", files)

\* _write_destination_file: the parent directories are made and the text is
\* written to the file that opening dst reaches
_write_destination_file(files, dst, content) ==
    LET reached == Resolve(files.nodes, dst)
        kind == files.nodes[reached].kind
    IN IF kind = "file"
       THEN Outcome("none", [files EXCEPT !.nodes[reached] = RegularFile(content)])
       ELSE IF kind = "dir" THEN Outcome("IsADirectoryError", files)
       ELSE IF kind = "nodir" THEN Outcome("FileNotFoundError", files)
       ELSE IF ~files.writable THEN Outcome("PermissionError", files)
       ELSE Outcome("none", [files EXCEPT !.nodes[reached] = RegularFile(content)])

\* _arrange_single_template: the exception that leaves it and the files
_arrange_single_template(files, dest, template_path, override) ==
    LET read == _read_template_content(template_path)
    IN IF read.kind = "error" THEN Outcome(read.exc, files)
       ELSE LET handled == _handle_existing_destination(files, dest, override)
            IN IF handled.exc # "none" THEN handled
               ELSE _write_destination_file(handled.fs, dest, read.content)

InitArrange ==
    /\ call = "arrange_templates"
    /\ pc = "ready"
    /\ strict = FALSE
    /\ xml_requires = <<>>
    /\ config_requires = <<>>
    /\ xml_data = NoneObj
    /\ config = NoneObj
    /\ addon_xml = NoneObj
    /\ args \in ArrangeArgs
    /\ pyproject = NoneObj
    /\ fs \in Fixtures
    /\ merged = NoneObj
    /\ placing = 0
    /\ result = NoResult

\* the fixture directory is validated, an empty table is refused, and the
\* loop over mappings.items() begins
ArrangeBegin ==
    /\ call = "arrange_templates" /\ pc = "ready"
    /\ IF args.fixture_dir = None \/ args.mappings = <<>>
       THEN result' = Raised("ValueError") /\ pc' = "done" /\ UNCHANGED placing
       ELSE placing' = 1 /\ pc' = "loop" /\ UNCHANGED result
    /\ UNCHANGED <<call, strict, xml_requires, config_requires, xml_data, config,
                   addon_xml, args, pyproject, fs, merged>>

\* one iteration of the loop: the entry is placed, or the exception of
\* _arrange_single_template leaves arrange_templates
ArrangePlace ==
    /\ call = "arrange_templates" /\ pc = "loop"
    /\ placing <= Len(args.mappings)
    /\ LET entry == args.mappings[placing]
           placed == _arrange_single_template(fs, entry.dest, entry.template,
                                              args.override)
       IN /\ fs' = placed.fs
          /\ IF placed.exc # "none"
             THEN result' = Raised(placed.exc) /\ pc' = "done" /\ UNCHANGED placing
             ELSE placing' = placing + 1 /\ UNCHANGED <<pc, result>>
    /\ UNCHANGED <<call, strict, xml_requires, config_requires, xml_data, config,
                   addon_xml, args, pyproject, merged>>

\* the loop is exhausted and arrange_templates returns None
ArrangeReturn ==
    /\ call = "arrange_templates" /\ pc = "loop"
    /\ placing > Len(args.mappings)
    /\ result' = [kind |-> "ok"]
    /\ pc' = "done"
    /\ UNCHANGED <<call, strict, xml_requires, config_requires, xml_data, config,
                   addon_xml, args, pyproject, fs, merged, placing>>

NextArrange ==
    \/ ArrangeBegin
    \/ ArrangePlace
    \/ ArrangeReturn

SpecArrange == InitArrange /\ [][NextArrange]_vars

-----------------------------------------------------------------------------
(* Vocabulary of the properties, stated on the arguments of the call and    *)
(* independently of the operators above                                     *)

Done == pc = "done"

AddonCall == call = "reconcile_addon"

\* a value is declared when it is neither None nor empty
Declared(v) == v # None /\ v # ""

ComparedFields == {"id", "name", "provider-name", "description"}

FieldRank == ("id" :> 1) @@ ("name" :> 2) @@ ("provider-name" :> 3)
             @@ ("description" :> 4)

XmlVal(f) == CASE f = "id" -> xml_data.id [] f = "name" -> xml_data.name
               [] f = "provider-name" -> xml_data.provider_name
               [] f = "description" -> xml_data.description

CfgVal(f) == CASE f = "id" -> config.id [] f = "name" -> config.name
               [] f = "provider-name" -> config.provider_name
               [] f = "description" -> config.description

\* the compared fields for which manifest and config declare different values
FieldsInConflict ==
    IF ~AddonCall \/ IsNone(xml_data) \/ IsNone(config) THEN {}
    ELSE {f \in ComparedFields :
            Declared(XmlVal(f)) /\ Declared(CfgVal(f)) /\ XmlVal(f) # CfgVal(f)}

\* the two requirement lists of the call
XmlReqs == IF ~AddonCall THEN xml_requires
           ELSE IF IsNone(xml_data) THEN <<>> ELSE xml_data.requires

CfgReqs == IF ~AddonCall THEN config_requires
           ELSE IF IsNone(config) THEN <<>> ELSE config.requires

EntryId(e) == IF "addon" \in DOMAIN e THEN e.addon ELSE <<>>

EntryVersion(e) == IF "version" \in DOMAIN e THEN e.version ELSE <<>>

Entries(reqs) == {reqs[i] : i \in 1..Len(reqs)}

IdsOf(reqs) == {EntryId(e) : e \in Entries(reqs)} \ {<<>>}

\* the dependency ids both lists name with different versions
DepsInConflict ==
    {d \in IdsOf(XmlReqs) \cap IdsOf(CfgReqs) :
        \E x \in Entries(XmlReqs), c \in Entries(CfgReqs) :
            EntryId(x) = d /\ EntryId(c) = d /\ EntryVersion(x) # EntryVersion(c)}

\* no dependency id occurs with two different versions anywhere in the call
NoReqConflict ==
    \A e1 \in Entries(XmlReqs) \cup Entries(CfgReqs),
       e2 \in Entries(XmlReqs) \cup Entries(CfgReqs) :
        (EntryId(e1) # <<>> /\ EntryId(e1) = EntryId(e2))
            => EntryVersion(e1) = EntryVersion(e2)

SetMin(S) == CHOOSE x \in S : \A y \in S : x <= y
SetMax(S) == CHOOSE x \in S : \A y \in S : x >= y

\* the version the merge holds for the id of config entry j when it reaches
\* it, provided no earlier entry conflicted: the manifest's last entry for the
\* id, else the config's first earlier entry for it
Recorded(j) ==
    LET d  == EntryId(CfgReqs[j])
        xs == {i \in 1..Len(XmlReqs) : EntryId(XmlReqs[i]) = d}
        cs == {i \in 1..(j - 1) : EntryId(CfgReqs[i]) = d}
    IN IF xs # {} THEN [has |-> TRUE, v |-> EntryVersion(XmlReqs[SetMax(xs)])]
       ELSE IF cs # {} THEN [has |-> TRUE, v |-> EntryVersion(CfgReqs[SetMin(cs)])]
       ELSE [has |-> FALSE, v |-> <<>>]

ConflictAt(j) ==
    /\ EntryId(CfgReqs[j]) # <<>>
    /\ Recorded(j).has
    /\ Recorded(j).v # EntryVersion(CfgReqs[j])

ConflictingEntries == {j \in 1..Len(CfgReqs) : ConflictAt(j)}

\* the raised error names field f / dependency d
NamesField(f) == result.about = "field" /\ result.subject = f
NamesDep(d) == result.about = "requires" /\ result.subject = d

-----------------------------------------------------------------------------
(* Properties *)

\* C1: in strict mode a call of reconcile_addon or reconcile_requires either
\* returns a merged record with an empty warning list or raises the conflict
\* error and returns nothing; no strict outcome carries a warning.
C1_StrictAllOrNothing ==
    (Done /\ strict) =>
        \/ result.kind = "ok" /\ result.warnings = <<>>
        \/ /\ result.kind = "error"
           /\ "merged" \notin DOMAIN result
           /\ "warnings" \notin DOMAIN result

\* a strict call of reconcile_addon whose fields agree and whose requirement
\* versions conflict has raised
C1_Witness ==
    /\ Done /\ strict /\ AddonCall
    /\ FieldsInConflict = {} /\ DepsInConflict # {}
    /\ result.kind = "error"

C7_LenientNeverFails ==
    (Done /\ AddonCall /\ ~strict) =>
        /\ result.kind = "ok"
        /\ DOMAIN result.merged # {} \/ IsNone(config)
        /\ \A f \in FieldsInConflict :
              \E i \in 1..Len(result.warnings) :
                 result.warnings[i].kind = "field" /\ result.warnings[i].subject = f
        /\ \A d \in DepsInConflict :
              \E i \in 1..Len(result.warnings) :
                 result.warnings[i].kind = "requires" /\ result.warnings[i].subject = d

\* a lenient call on a pair with several field conflicts and a version
\* conflict has returned
C7_Witness ==
    /\ Done /\ AddonCall /\ ~strict
    /\ Cardinality(FieldsInConflict) >= 2 /\ DepsInConflict # {}
    /\ result.kind = "ok"
    /\ Len(result.warnings) >= 3

\* C3: a pair with exactly one conflicting field and no conflicting
\* requirement fails in strict mode; in lenient mode it succeeds, keeps the
\* config's value for the field and returns exactly one warning, which
\* references the field, the manifest value and the config value.
C3_OneFieldConflict ==
    (Done /\ AddonCall /\ Cardinality(FieldsInConflict) = 1 /\ NoReqConflict) =>
        LET f == CHOOSE g \in FieldsInConflict : TRUE
        IN IF strict
           THEN result.kind = "error" /\ "merged" \notin DOMAIN result
           ELSE /\ result.kind = "ok"
                /\ result.merged[f] = CfgVal(f)
                /\ Len(result.warnings) = 1
                /\ result.warnings[1].kind = "field"
                /\ result.warnings[1].subject = f
                /\ result.warnings[1].xml = XmlVal(f)
                /\ result.warnings[1].config = CfgVal(f)

\* a lenient call on a pair whose only conflict is the description returned
C3_Witness ==
    /\ Done /\ AddonCall /\ ~strict
    /\ FieldsInConflict = {"description"} /\ NoReqConflict
    /\ DepsInConflict = {} /\ CfgReqs # <<>> /\ XmlReqs # <<>>
    /\ result.kind = "ok" /\ Len(result.warnings) = 1

DeclarableFields == {"id", "name", "provider-name", "description", "summary",
                     "license", "disclaimer", "source", "assets"}

FieldOf(rec, f) == CASE f = "id" -> rec.id [] f = "name" -> rec.name
                     [] f = "provider-name" -> rec.provider_name
                     [] f = "description" -> rec.description
                     [] f = "summary" -> rec.summary
                     [] f = "license" -> rec.license
                     [] f = "disclaimer" -> rec.disclaimer
                     [] f = "source" -> rec.source
                     [] f = "assets" -> rec.assets

\* record rec declares a non-empty value for field f
Declares(rec, f) ==
    /\ ~IsNone(rec)
    /\ IF f = "assets" THEN DOMAIN rec.assets # {} ELSE Declared(FieldOf(rec, f))

NoOverlap == \A f \in DeclarableFields : ~(Declares(xml_data, f) /\ Declares(config, f))

\* C4 as stated: without overlapping declarations and without conflicting
\* requirement the merge has no warnings, holds the config's value where the
\* config declares one and the manifest's value where only the manifest
\* declares one, and carries the manifest's version.
C4_ConfigOverManifest ==
    (Done /\ AddonCall /\ NoOverlap /\ NoReqConflict) =>
        /\ result.kind = "ok"
        /\ result.warnings = <<>>
        /\ \A f \in DeclarableFields :
              /\ Declares(config, f) =>
                    f \in DOMAIN result.merged /\ result.merged[f] = FieldOf(config, f)
              /\ (Declares(xml_data, f) /\ ~Declares(config, f)) =>
                    f \in DOMAIN result.merged /\ result.merged[f] = FieldOf(xml_data, f)
        /\ (~IsNone(xml_data) /\ Declared(xml_data.version)) =>
              /\ "version" \in DOMAIN result.merged
              /\ result.merged["version"] = xml_data.version

\* C4 amended: without overlapping declarations and without conflicting
\* requirement the merge succeeds with no warnings in both modes; with a
\* config record every declarable field holds the config's value, also where
\* only the manifest declares one, and the manifest's version is not part of
\* the merged record; without a config record the fields and the version are
\* the manifest's.
C4_ConfigReplacesManifest ==
    (Done /\ AddonCall /\ NoOverlap /\ NoReqConflict) =>
        /\ result.kind = "ok"
        /\ result.warnings = <<>>
        /\ ~IsNone(config) =>
              /\ \A f \in DeclarableFields :
                    f \in DOMAIN result.merged /\ result.merged[f] = FieldOf(config, f)
              /\ "version" \notin DOMAIN result.merged
        /\ (IsNone(config) /\ ~IsNone(xml_data)) =>
              /\ \A f \in DeclarableFields :
                    f \in DOMAIN result.merged /\ result.merged[f] = FieldOf(xml_data, f)
              /\ result.merged["version"] = xml_data.version
        /\ (IsNone(config) /\ IsNone(xml_data)) => DOMAIN result.merged = {}

\* a call returned for a pair without overlap in which the config declares
\* the id and only the manifest declares the name, the summary and a version
C4_Witness ==
    /\ Done /\ AddonCall /\ NoOverlap /\ NoReqConflict
    /\ ~IsNone(xml_data) /\ ~IsNone(config)
    /\ Declares(config, "id")
    /\ Declares(xml_data, "name") /\ Declares(xml_data, "summary")
    /\ xml_data.version # None
    /\ CfgReqs # <<>> /\ XmlReqs # <<>>
    /\ result.kind = "ok"

\* C5: whenever a config record is present and reconcile_addon returns, the
\* merged value of each declarable field is the config's value, whatever the
\* manifest declares.
C5_ConfigIsSourceOfTruth ==
    (Done /\ AddonCall /\ ~IsNone(config) /\ result.kind = "ok") =>
        \A f \in DeclarableFields :
            f \in DOMAIN result.merged /\ result.merged[f] = FieldOf(config, f)

\* a lenient call returned although the manifest declares another id and
\* declares a summary, a license and assets the config does not declare
C5_Witness ==
    /\ Done /\ AddonCall /\ ~IsNone(config) /\ ~IsNone(xml_data)
    /\ "id" \in FieldsInConflict
    /\ Declares(xml_data, "summary") /\ ~Declares(config, "summary")
    /\ Declares(xml_data, "assets") /\ ~Declares(config, "assets")
    /\ Declares(config, "description")
    /\ result.kind = "ok"

ManifestFields == {"id", "version", "name", "provider-name", "summary",
                   "description", "disclaimer", "license", "source", "assets",
                   "requires", "news"}

ManifestField(f) == CASE f = "version" -> xml_data.version
                      [] f = "requires" -> xml_data.requires
                      [] f = "news" -> xml_data.news
                      [] OTHER -> FieldOf(xml_data, f)

\* the raw-fragment bag of the manifest: its extensions other than the
\* metadata extension, in document order
RawFragments ==
    IF IsNone(xml_data) \/ IsNone(xml_data.root) THEN <<>>
    ELSE LET kept == SelectSeq(xml_data.root.extensions,
                        LAMBDA e : Declared(e.point) /\ e.point # "xbmc.addon.metadata")
         IN [i \in 1..Len(kept) |-> kept[i].xml]

\* C6: without a config record reconcile_addon returns the manifest record
\* unchanged, every field and the raw-fragment bag, with no warnings in both
\* modes; without manifest and config it returns an empty record.
C6_ManifestUnchanged ==
    (Done /\ AddonCall /\ IsNone(config)) =>
        /\ result.kind = "ok"
        /\ result.warnings = <<>>
        /\ IsNone(xml_data) => DOMAIN result.merged = {}
        /\ ~IsNone(xml_data) =>
              /\ \A f \in ManifestFields :
                    f \in DOMAIN result.merged /\ result.merged[f] = ManifestField(f)
              /\ Get(result.merged, "unknown_extensions", <<>>) = RawFragments

\* the ordering of str, stated on positions
LexLess(a, b) ==
    \E k \in 1..(Len(b)) :
        /\ \A i \in 1..(k - 1) : i <= Len(a) /\ a[i] = b[i]
        /\ \/ k = Len(a) + 1
           \/ k <= Len(a) /\ Ord[a[k]] < Ord[b[k]]

LexGreatest(a, b) == IF LexLess(a, b) THEN b ELSE a

OccurrencesIn(reqs, d) == {i \in 1..Len(reqs) : EntryId(reqs[i]) = d}

VersionIn(reqs, d) == EntryVersion(reqs[CHOOSE i \in OccurrencesIn(reqs, d) : TRUE])

\* d has one entry in each list and the two versions differ
VersionsDiffer(d) ==
    /\ Cardinality(OccurrencesIn(XmlReqs, d)) = 1
    /\ Cardinality(OccurrencesIn(CfgReqs, d)) = 1
    /\ VersionIn(XmlReqs, d) # VersionIn(CfgReqs, d)

\* what lenient mode does for a dependency whose versions differ
KeepsGreater(d) ==
    /\ result.kind = "ok"
    /\ Cardinality(OccurrencesIn(result.merged, d)) = 1
    /\ VersionIn(result.merged, d)
          = LexGreatest(VersionIn(XmlReqs, d), VersionIn(CfgReqs, d))
    /\ ({VersionIn(XmlReqs, d), VersionIn(CfgReqs, d)} = {V_1_2_0, V_1_10_0})
          => VersionIn(result.merged, d) = V_1_2_0
    /\ ({VersionIn(XmlReqs, d), VersionIn(CfgReqs, d)} = {V_1_0_0, V_2_0_0})
          => VersionIn(result.merged, d) = V_2_0_0
    /\ Cardinality({i \in 1..Len(result.warnings) :
                       result.warnings[i].subject = d}) = 1

ReturnedReqs == IF AddonCall THEN result.merged["requires"] ELSE result.merged

\* C9: the requirement list returned by reconcile_requires, and stored in the
\* merged record, is strictly increasing by dependency id in both modes.
C9_StrictlyIncreasingIds ==
    (Done /\ result.kind = "ok" /\ (AddonCall => ~IsNone(config))) =>
        \A i \in 1..Len(ReturnedReqs), j \in 1..Len(ReturnedReqs) :
            i < j => LexLess(ReturnedReqs[i].addon, ReturnedReqs[j].addon)

\* a merge whose manifest list names dep2 before dep1, and dep2 twice, has
\* returned a list of two entries
C9_Witness ==
    /\ Done /\ ~AddonCall /\ result.kind = "ok"
    /\ Len(XmlReqs) >= 2 /\ EntryId(XmlReqs[1]) = Dep2 /\ EntryId(XmlReqs[2]) = Dep1
    /\ Dep2 \in IdsOf(CfgReqs)
    /\ Len(result.merged) = 2

\* every entry has a non-empty id and a version, and no id occurs twice
WellFormed(reqs) ==
    /\ \A i \in 1..Len(reqs) :
          "addon" \in DOMAIN reqs[i] /\ "version" \in DOMAIN reqs[i]
          /\ reqs[i].addon # <<>>
    /\ \A i \in 1..Len(reqs), j \in 1..Len(reqs) :
          reqs[i].addon = reqs[j].addon => i = j

\* C10 as stated: reconciling any list L (of entries with non-empty,
\* pairwise distinct ids and a version) against the identical list L returns
\* L itself with zero warnings, in both modes.
C10_SameListBack ==
    (Done /\ ~AddonCall /\ xml_requires = config_requires
          /\ WellFormed(xml_requires)) =>
        /\ result.kind = "ok"
        /\ result.warnings = <<>>
        /\ result.merged = xml_requires

\* C10 amended: for a list L whose entries have non-empty, pairwise distinct
\* ids and a version, reconciling L against L returns, in both modes and with
\* zero warnings, the entries of L sorted by dependency id: L itself when L
\* is sorted.
C10_SortedListBack ==
    (Done /\ ~AddonCall /\ xml_requires = config_requires
          /\ WellFormed(xml_requires)) =>
        /\ result.kind = "ok"
        /\ result.warnings = <<>>
        /\ Len(result.merged) = Len(xml_requires)
        /\ Entries(result.merged) = Entries(xml_requires)
        /\ (\A i \in 1..Len(xml_requires), j \in 1..Len(xml_requires) :
               i < j => LexLess(xml_requires[i].addon, xml_requires[j].addon))
              => result.merged = xml_requires

\* a strict merge of a list naming dep2 before dep1 against itself returned
C10_Witness ==
    /\ Done /\ ~AddonCall /\ strict
    /\ xml_requires = config_requires /\ WellFormed(xml_requires)
    /\ Len(xml_requires) = 2 /\ xml_requires[1].addon = Dep2
    /\ result.kind = "ok" /\ result.merged # xml_requires

\* the positions of list reqs whose entry names dependency d
Positions(reqs, d) == {i \in 1..Len(reqs) : EntryId(reqs[i]) = d}

\* the dependency ids that one list of the call names more than once and
\* the other list does not name
DuplicatedInOneList ==
    {d \in IdsOf(XmlReqs) \cup IdsOf(CfgReqs) :
        \/ Cardinality(Positions(XmlReqs, d)) >= 2 /\ Positions(CfgReqs, d) = {}
        \/ Cardinality(Positions(CfgReqs, d)) >= 2 /\ Positions(XmlReqs, d) = {}}

\* the version of the last entry for d in the list that duplicates it
LastWritten(d) ==
    IF Positions(XmlReqs, d) # {}
    THEN EntryVersion(XmlReqs[SetMax(Positions(XmlReqs, d))])
    ELSE EntryVersion(CfgReqs[SetMax(Positions(CfgReqs, d))])

\* C11: a dependency id that occurs more than once in one record's list (the
\* manifest's or the config's) is resolved by last-write-wins: no conflict
\* error and no warning names it, and the returned list holds the version of
\* the later entry.
C11_DuplicatesLastWriteWins ==
    (Done /\ ~AddonCall) =>
        \A d \in DuplicatedInOneList :
            /\ result.kind = "error" => ~NamesDep(d)
            /\ result.kind = "ok" =>
                  /\ \A i \in 1..Len(result.warnings) :
                        result.warnings[i].subject # d
                  /\ \E i \in 1..Len(result.merged) :
                        /\ result.merged[i].addon = d
                        /\ result.merged[i].version = LastWritten(d)

\* the news the manifest supplies: its text when a manifest is present and
\* the text is non-empty, the empty string otherwise
ManifestNews ==
    IF ~IsNone(xml_data) /\ Declared(xml_data.news) THEN xml_data.news ELSE ""

\* C12: on every path of reconcile_addon, with and without a config record,
\* the merged record has a news field; it equals the manifest's news when a
\* manifest is present and its news is non-empty and is the empty string in
\* every other case, whatever the config holds.
C12_NewsFromManifestOrEmpty ==
    (Done /\ AddonCall /\ result.kind = "ok") =>
        /\ "news" \in DOMAIN result.merged
        /\ result.merged["news"] = ManifestNews

\* the extension blocks of the manifest other than the metadata block, in
\* document order
OtherBlocks ==
    IF IsNone(xml_data) \/ IsNone(xml_data.root) THEN <<>>
    ELSE LET kept == SelectSeq(xml_data.root.extensions,
                               LAMBDA e : e.point # "xbmc.addon.metadata")
         IN [i \in 1..Len(kept) |-> kept[i].xml]

\* C13: whenever reconcile_addon returns a merged record for a manifest, the
\* record's unknown_extensions holds every extension block of the manifest
\* other than the metadata block, verbatim and in document order, and never
\* the metadata block.
C13_OtherBlocksCarried ==
    (Done /\ AddonCall /\ result.kind = "ok" /\ ~IsNone(xml_data)) =>
        /\ "unknown_extensions" \in DOMAIN result.merged
        /\ result.merged["unknown_extensions"] = OtherBlocks

ParseCall == call = "parse_addon_xml"

\* the import elements inside the requires child of the document's root
RootImports ==
    LET found == SelectSeq(addon_xml.root.children, LAMBDA c : c.tag = "requires")
    IN IF found = <<>> THEN <<>>
       ELSE SelectSeq(found[1].children, LAMBDA c : c.tag = "import")

\* every import element has a non-empty addon attribute and a version
ImportsComplete ==
    \A i \in 1..Len(RootImports) :
        /\ DOMAIN RootImports[i].attrib = {"addon", "version"}
        /\ RootImports[i].attrib["addon"] # <<>>

\* a occurs in b as a subsequence, order kept
IsSubsequence(a, b) ==
    \E f \in [1..Len(a) -> 1..Len(b)] :
        /\ \A i \in 1..Len(a), j \in 1..Len(a) : i < j => f[i] < f[j]
        /\ \A i \in 1..Len(a) : b[f[i]] = a[i]

\* C14: for each import element inside the root's requires child,
\* parse_addon_xml records one requirement entry with the element's addon and
\* version attributes, the entries in document order.
C14_RootImportsRecorded ==
    (Done /\ ParseCall /\ result.kind = "ok" /\ ImportsComplete) =>
        IsSubsequence([i \in 1..Len(RootImports) |->
                          [addon |-> RootImports[i].attrib["addon"],
                           version |-> RootImports[i].attrib["version"]]],
                      result.data.requires)

MappingsCall == call = "build_mappings"

\* the mode flags the caller set
FlagsSet == {f \in {"pypi", "kodi_addon", "changelog_only"} : args[f]}

OnlyChangelogOnly == [pypi |-> FALSE, kodi_addon |-> FALSE, changelog_only |-> TRUE]

\* the call raised the configuration error and returned no table
ConfigurationError ==
    /\ result.kind = "error" /\ result.exc = "ValueError"
    /\ "table" \notin DOMAIN result

\* C15: build_mappings raises the configuration error, and returns no table,
\* whenever more than one of pypi, kodi_addon and changelog_only is set; with
\* no flag set it returns exactly the table that the same config gives with
\* only changelog_only set (and fails exactly when that call fails).
C15_FlagsExclusiveDefaultChangelog ==
    (Done /\ MappingsCall) =>
        /\ Cardinality(FlagsSet) > 1 => ConfigurationError
        /\ FlagsSet = {} =>
              LET other == build_mappings(config, OnlyChangelogOnly)
              IN /\ result.kind = other.kind
                 /\ result.kind = "ok" => result.table = other.table

\* a call without flags, on a config that asks for no Kodi structure and
\* declares an override, has returned a table
C15_Witness ==
    /\ Done /\ MappingsCall /\ FlagsSet = {}
    /\ "use-default-kodi-addon-structure" \notin DOMAIN config
    /\ result.kind = "ok" /\ Len(result.table) = 2

\* the entries source-mappings declares, in declaration order
Overrides ==
    IF "source-mappings" \in DOMAIN config /\ config["source-mappings"].t = "dict"
    THEN config["source-mappings"].v ELSE <<>>

\* the keys whose values the validation inspects
ValidatedKeys ==
    {"templates-dir", "use-default-pypi-structure",
     "use-default-kodi-addon-structure", "kodi-project-name", "source-mappings"}

\* the config passes validation: every such key holds a value of its type,
\* templates-dir is a non-empty name without separators, kodi-project-name is
\* not empty, and the keys and values of source-mappings are strings
ConfigPasses ==
    /\ \A k \in DOMAIN config \cap ValidatedKeys :
          config[k].t = CASE k \in {"templates-dir", "kodi-project-name"} -> "str"
                          [] k = "source-mappings" -> "dict"
                          [] OTHER -> "bool"
    /\ "templates-dir" \in DOMAIN config =>
          /\ config["templates-dir"].v # <<>>
          /\ \A i \in 1..Len(config["templates-dir"].v) :
                config["templates-dir"].v[i] \notin {"/", "\\"}
    /\ "kodi-project-name" \in DOMAIN config => config["kodi-project-name"].v # <<>>
    /\ \A i \in 1..Len(Overrides) :
          Overrides[i].dest.t = "str" /\ Overrides[i].template.t = "str"

\* at most one mode flag is set
FlagsPass == Cardinality(FlagsSet) <= 1

TemplatesDir ==
    IF "templates-dir" \in DOMAIN config THEN config["templates-dir"].v
    ELSE <<"templates">>

\* the Kodi addon mode is selected, by the flag or by the config
KodiMode ==
    \/ args.kodi_addon
    \/ /\ "use-default-kodi-addon-structure" \in DOMAIN config
       /\ config["use-default-kodi-addon-structure"] = Bool(TRUE)

ChangelogDefault ==
    [dest |-> TemplatesDir \o <<"/", "CHANGELOG.md.j2">>,
     template |-> <<"universal", "/", "CHANGELOG.md.j2">>]

KodiDefault ==
    [dest |-> IF "kodi-project-name" \in DOMAIN config
              THEN TemplatesDir \o <<"/">> \o config["kodi-project-name"].v
                   \o <<"/", "addon.xml.j2">>
              ELSE TemplatesDir \o <<"/", "addon.xml.j2">>,
     template |-> <<"kodi-addons", "/", "addon.xml.j2">>]

\* the default entries of the selected mode (of a config that passes)
DefaultEntries == IF KodiMode THEN {KodiDefault, ChangelogDefault} ELSE {ChangelogDefault}

ReservedDestinations == {e.dest : e \in DefaultEntries}

TableEntries == {result.table[i] : i \in 1..Len(result.table)}

\* a destination that is empty, has no separator or ends in one
MalformedDest(d) ==
    d = <<>> \/ (\A k \in 1..Len(d) : d[k] # "/") \/ d[Len(d)] = "/"

\* a template source that is empty or ends in a separator
MalformedTemplate(t) == t = <<>> \/ t[Len(t)] = "/"

\* override i is rejected: malformed or aimed at a reserved destination
Rejected(i) ==
    \/ MalformedDest(Overrides[i].dest.v)
    \/ MalformedTemplate(Overrides[i].template.v)
    \/ Overrides[i].dest.v \in ReservedDestinations

\* C16 as stated: every returned table maps each reserved destination to its
\* default template source, and an override whose destination is reserved
\* makes build_mappings fail with a configuration error that names that
\* destination.
C16_ReservedNamedAlways ==
    (Done /\ MappingsCall /\ ConfigPasses /\ FlagsPass) =>
        /\ result.kind = "ok" => DefaultEntries \subseteq TableEntries
        /\ \A i \in 1..Len(Overrides) :
              Overrides[i].dest.v \in ReservedDestinations =>
                  /\ ConfigurationError
                  /\ result.subject = Overrides[i].dest.v

\* C16 amended: every returned table maps each reserved destination to its
\* default template source; an override whose destination is reserved makes
\* build_mappings fail with a configuration error, and the error names that
\* destination when no earlier override is rejected and the override's own
\* template source is well formed.
C16_ReservedNamedWhenFirst ==
    (Done /\ MappingsCall /\ ConfigPasses /\ FlagsPass) =>
        /\ result.kind = "ok" =>
              /\ DefaultEntries \subseteq TableEntries
              /\ result.reserved = ReservedDestinations
        /\ \A i \in 1..Len(Overrides) :
              Overrides[i].dest.v \in ReservedDestinations =>
                  /\ ConfigurationError
                  /\ ((\A j \in 1..(i - 1) : ~Rejected(j))
                      /\ ~MalformedTemplate(Overrides[i].template.v))
                        => /\ result.about = "reserved"
                           /\ result.subject = Overrides[i].dest.v

\* a call whose second override aims at the reserved destination of the Kodi
\* addon default, after a well-formed first one, has raised
C16_Witness ==
    /\ Done /\ MappingsCall /\ ConfigPasses /\ FlagsPass
    /\ Len(Overrides) = 2 /\ ~Rejected(1)
    /\ Overrides[2].dest.v = KodiDefault.dest /\ KodiMode
    /\ result.kind = "error" /\ result.about = "reserved"

\* C17: build_mappings raises the configuration error, and returns no table,
\* for every config whose source-mappings holds an entry with an empty
\* destination, a destination without a separator or one ending in a
\* separator, or an entry whose template source is empty or ends in a
\* separator.
C17_MalformedOverrideRejected ==
    (Done /\ MappingsCall) =>
        \A i \in 1..Len(Overrides) :
            ((Overrides[i].dest.t = "str" /\ MalformedDest(Overrides[i].dest.v))
             \/ (Overrides[i].template.t = "str"
                 /\ MalformedTemplate(Overrides[i].template.v)))
                => ConfigurationError

\* a call on a valid config whose second override names a directory, after a
\* well-formed first one, has raised on that destination
C17_Witness ==
    /\ Done /\ MappingsCall /\ ConfigPasses /\ FlagsPass
    /\ Len(Overrides) = 2 /\ ~Rejected(1)
    /\ Overrides[2].dest.v = <<"dir", "/", "sub", "/">>
    /\ result.kind = "error" /\ result.about = "dest-directory"
    /\ result.subject = Overrides[2].dest.v

\* C18: every destination of every table build_mappings returns, of a default
\* entry or of an override, contains at least one path separator and does not
\* end in one.
C18_DestinationsAreFilePaths ==
    (Done /\ MappingsCall /\ result.kind = "ok") =>
        \A e \in TableEntries :
            /\ e.dest # <<>>
            /\ \E k \in 1..Len(e.dest) : e.dest[k] = "/"
            /\ e.dest[Len(e.dest)] # "/"

\* a call in Kodi addon mode with a custom templates-dir, a project name and
\* two overrides has returned a table of four entries
C18_Witness ==
    /\ Done /\ MappingsCall /\ result.kind = "ok"
    /\ KodiMode /\ TemplatesDir = <<"custom">>
    /\ "kodi-project-name" \in DOMAIN config
    /\ Len(Overrides) = 2
    /\ Len(result.table) = 4

C20_DefaultsThenOverridesInOrder ==
    (Done /\ MappingsCall /\ result.kind = "ok") =>
        LET defaults == IF KodiMode THEN <<KodiDefault, ChangelogDefault>>
                        ELSE <<ChangelogDefault>>
        IN /\ Len(result.table) = Len(defaults) + Len(Overrides)
           /\ \A i \in 1..Len(defaults) : result.table[i] = defaults[i]
           /\ \A i \in 1..Len(Overrides) :
                 result.table[Len(defaults) + i] =
                     [dest |-> Overrides[i].dest.v,
                      template |-> Overrides[i].template.v]

\* a call in Kodi addon mode whose config declares src/pkg/a.py before
\* docs/README.md has returned a table of four entries
C20_Witness ==
    /\ Done /\ MappingsCall /\ result.kind = "ok" /\ KodiMode
    /\ Len(Overrides) = 2
    /\ Overrides[1].dest.v = <<"src", "/", "pkg", "/", "a.py">>
    /\ Overrides[2].dest.v = <<"docs", "/", "README.md">>
    /\ Len(result.table) = 4

\* every entry of the list names a non-empty dependency id, and no id twice
DistinctIds(reqs) ==
    /\ \A i \in 1..Len(reqs) : EntryId(reqs[i]) # <<>>
    /\ \A i \in 1..Len(reqs), j \in 1..Len(reqs) :
          EntryId(reqs[i]) = EntryId(reqs[j]) => i = j

\* C30: in lenient mode the requirement merge is commutative on lists whose
\* dependency ids are non-empty and pairwise distinct: the call with the two
\* lists swapped returns the same merged list and as many warnings.
C30_LenientMergeCommutes ==
    (Done /\ ~AddonCall /\ call = "reconcile_requires" /\ ~strict
          /\ DistinctIds(xml_requires) /\ DistinctIds(config_requires)) =>
        LET swapped == reconcile_requires(config_requires, xml_requires, FALSE)
        IN /\ result.kind = "ok" /\ swapped.kind = "ok"
           /\ result.merged = swapped.merged
           /\ Len(result.warnings) = Len(swapped.warnings)

\* a lenient merge of two different two-entry lists that disagree on the
\* version of a dependency has returned with a warning
C30_Witness ==
    /\ Done /\ call = "reconcile_requires" /\ ~strict
    /\ DistinctIds(xml_requires) /\ DistinctIds(config_requires)
    /\ Len(xml_requires) = 2 /\ Len(config_requires) = 2
    /\ xml_requires # config_requires
    /\ DepsInConflict # {}
    /\ result.kind = "ok" /\ Len(result.warnings) >= 1

\* C27: build_mappings takes the Kodi project subdirectory from the config
\* key kodi-addon-directory: in Kodi mode with the key set to a non-empty
\* string N the addon default destination is templates/N/addon.xml.j2, and a
\* config whose kodi-addon-directory is empty or not a string is rejected
\* with the configuration error.
C27_KodiAddonDirectoryKey ==
    (Done /\ MappingsCall /\ "kodi-addon-directory" \in DOMAIN config
          /\ ConfigPasses /\ FlagsPass /\ Overrides = <<>>) =>
        LET dir == config["kodi-addon-directory"]
        IN IF dir.t = "str" /\ dir.v # <<>>
           THEN KodiMode =>
                  /\ result.kind = "ok"
                  /\ [dest |-> <<"templates", "/">> \o dir.v \o <<"/", "addon.xml.j2">>,
                      template |-> <<"kodi-addons", "/", "addon.xml.j2">>]
                        \in TableEntries
           ELSE ConfigurationError


-----------------------------------------------------------------------------
(* psr_prepare main: exit codes, dry run, order of the writes *)

MainCall == call = "main"

\* main has returned
MainDone == MainCall /\ pc = "done" /\ result.kind = "exit"

\* the config file is missing or invalid
ConfigErrorCase == load_config(pyproject).kind = "error"

\* the config declares an addon whose addon.xml exists
ManifestRead ==
    /\ ~ConfigErrorCase
    /\ ~IsNone(pyproject.addon)
    /\ addon_xml.file # "missing"

\* the existing addon.xml cannot be parsed
ParseErrorCase == ManifestRead /\ parse_addon_xml(addon_xml).kind = "error"

\* what main hands to reconcile_addon as the manifest record
ManifestRecord ==
    IF ManifestRead /\ ~ParseErrorCase THEN parse_addon_xml(addon_xml).data
    ELSE NoneObj

\* reconciliation is reached and raises a conflict
ConflictCase ==
    /\ ~ConfigErrorCase
    /\ ~IsNone(pyproject.addon)
    /\ ~ParseErrorCase
    /\ reconcile_addon(ManifestRecord, pyproject.addon, args.strict).kind = "error"

\* C21: main returns 1 for a missing or invalid config, 2 when the existing
\* addon.xml cannot be parsed and 3 for a strict-mode reconciliation conflict;
\* it returns 0 in none of these cases, and 2 and 3 in no other case
C21_ExitCodesByErrorKind ==
    MainDone =>
        /\ ConfigErrorCase => result.code = 1
        /\ ParseErrorCase => result.code = 2
        /\ ConflictCase => result.code = 3
        /\ result.code = 0 => ~(ConfigErrorCase \/ ParseErrorCase \/ ConflictCase)
        /\ result.code = 2 => ParseErrorCase
        /\ result.code = 3 => ConflictCase /\ args.strict
        /\ result.code = 1 =>
              ConfigErrorCase \/ result.exc \notin {"ParseError", "ValueError"}
        /\ result.code \in {0, 1, 2, 3}

C21_Witness ==
    MainDone /\ result.code = 3 /\ ConflictCase /\ ~args.dry_run


\* what reconcile_addon returns for the inputs of this invocation
Reconciled == reconcile_addon(ManifestRecord, pyproject.addon, args.strict)

\* C22: a dry run writes nothing in any state of the invocation, and still
\* ends with 1 for a config error, 2 for an unparsable addon.xml, 3 for a
\* strict-mode conflict, and otherwise with 0 and the reconciled addon data
C22_DryRunWritesNothingStillReconciles ==
    (MainCall /\ args.dry_run) =>
        /\ fs.written = {}
        /\ MainDone =>
              /\ ConfigErrorCase => result.code = 1
              /\ ParseErrorCase => result.code = 2
              /\ ConflictCase => result.code = 3
              /\ ~(ConfigErrorCase \/ ParseErrorCase \/ ConflictCase) =>
                    /\ result.code = 0
                    /\ ~IsNone(pyproject.addon) =>
                          /\ merged.addon_merged = Reconciled.merged
                          /\ merged.warnings = Reconciled.warnings

C22_Witness ==
    /\ MainDone /\ args.dry_run /\ args.strict
    /\ ConflictCase /\ result.code = 3
    /\ fs.universal_src /\ fs.addon_src /\ fs.writable


\* main reads an addon.xml that is not well-formed
MalformedManifestRead == ManifestRead /\ addon_xml.file = "malformed"

\* main is past its parse step
PastParse == MainCall /\ pc \notin {"load_config", "parse"}

ArrangerParseCall == call = "_parse_addon_xml"

\* arranger's _parse_addon_xml returns the absent value for a malformed
\* addon.xml, with a warning on stderr, and does not raise
ArrangerParseRecovers ==
    (ArrangerParseCall /\ Done /\ addon_xml.file = "malformed") =>
        /\ result.kind = "return"
        /\ IsNone(result.value)
        /\ result.stderr # <<>>

\* C23 as stated: with a malformed addon.xml main goes on as if the file
\* were absent, reconciling with no manifest record and ending as that run
\* ends; arranger's _parse_addon_xml returns the absent value
C23_MalformedManifestRecoverable ==
    /\ (PastParse /\ MalformedManifestRead) =>
          /\ ~(pc = "done" /\ result.code = 2)
          /\ pc \notin {"reconcile", "done"} =>
                LET configOnly == reconcile_addon(NoneObj, pyproject.addon, args.strict)
                IN /\ merged.addon_merged = configOnly.merged
                   /\ merged.warnings = configOnly.warnings
    /\ ArrangerParseRecovers

\* C23, amended: with a malformed addon.xml main ends at the parse step with
\* exit code 2, without reconciling and without writing; arranger's
\* _parse_addon_xml returns the absent value with a warning and does not raise
C23_MalformedManifestFatalInMain ==
    /\ (PastParse /\ MalformedManifestRead) =>
          /\ MainDone
          /\ result.code = 2
          /\ merged = [addon_merged |-> EmptyMerged, warnings |-> <<>>]
          /\ fs.written = {}
    /\ ArrangerParseRecovers

C23_Witness ==
    /\ MainDone /\ MalformedManifestRead /\ result.code = 2
    /\ ~args.dry_run /\ ~args.strict


\* a valid config that declares an addon or a changelog section, an
\* addon.xml that is absent or well-formed, no strict-mode conflict, no dry
\* run, and a project directory that can be written
ValidRun ==
    /\ MainCall
    /\ ~ConfigErrorCase
    /\ ~IsNone(pyproject.addon) \/ ~IsNone(pyproject.changelog)
    /\ ~ParseErrorCase
    /\ ~ConflictCase
    /\ ~args.dry_run
    /\ fs.writable

\* C24: a valid non-dry run whose config declares an addon or a changelog
\* section ends with exit code 0, the templates whose source directory
\* exists having been copied
C24_ValidRunReturnsZero ==
    (MainDone /\ ValidRun) =>
        /\ result.code = 0
        /\ fs.universal_src => "templates" \in fs.written
        /\ (fs.addon_src /\ ~IsNone(pyproject.addon)) =>
              "templates/<addon id>" \in fs.written


\* the steps of main that may write
WritingSteps == {"addon_context", "changelog_context", "copy_universal", "copy_addon"}

\* C28: in every state of main in which something has been written, the
\* config was loaded, the addon.xml (if read) was parsed and reconciliation
\* (if run) raised no conflict, and main is past its reconcile step; an
\* invocation that returns 2 or 3 has written nothing
C28_WritesOnlyAfterReconciliation ==
    MainCall =>
        /\ fs.written # {} =>
              /\ ~ConfigErrorCase /\ ~ParseErrorCase /\ ~ConflictCase
              /\ pc \in (WritingSteps \ {"addon_context"}) \cup {"report", "done"}
              /\ ~IsNone(pyproject.addon) =>
                    merged.addon_merged = Reconciled.merged
        /\ (MainDone /\ result.code \in {2, 3}) => fs.written = {}

C28_Witness ==
    /\ MainDone /\ result.code = 0 /\ ~args.dry_run
    /\ fs.written = {"templates"}


-----------------------------------------------------------------------------
(* arrange_templates: overwrite policy, symlinks, order of the placements *)

ArrangeCall == call = "arrange_templates"

\* the loop is about to place an entry of the table
Placing == ArrangeCall /\ pc = "loop" /\ placing <= Len(args.mappings)

\* the entry the loop places next, and what is at its destination
Entry == args.mappings[placing]
AtDestination == fs.nodes[Entry.dest]

\* the template of the entry can be read
TemplateReadable == _read_template_content(Entry.template).kind = "ok"

\* the destination holds a symlink whose target does not exist
DanglingSymlink ==
    /\ AtDestination.kind = "symlink"
    /\ fs.nodes[AtDestination.target].kind \in {"absent", "nodir"}

\* C25: in every placement of an entry whose template can be read, a regular
\* file or a symlink (dangling or not) at the destination without override
\* makes the call fail with FileExistsError and leaves every file as it was;
\* a regular file with override gets the template's content
C25_OverwritePolicy ==
    [][(Placing /\ TemplateReadable) =>
          /\ (AtDestination.kind \in {"file", "symlink"} /\ ~args.override) =>
                /\ pc' = "done"
                /\ result'.kind = "error" /\ result'.exc = "FileExistsError"
                /\ fs'.nodes = fs.nodes
          /\ (AtDestination.kind = "file" /\ args.override) =>
                /\ pc' = "loop" /\ placing' = placing + 1
                /\ fs'.nodes[Entry.dest] = RegularFile(ContentOf(Entry.template))
      ]_vars

\* C26: in every placement of an entry whose template can be read, with
\* override and a directory that can be written, a symlink at the destination
\* (dangling or not) is replaced by a regular file with the template's
\* content, and the path the symlink pointed to is left as it was
C26_SymlinkRemovedNotFollowed ==
    [][(Placing /\ TemplateReadable /\ args.override /\ fs.writable
          /\ AtDestination.kind = "symlink") =>
          /\ pc' = "loop" /\ placing' = placing + 1
          /\ fs'.nodes[Entry.dest] = RegularFile(ContentOf(Entry.template))
          /\ fs'.nodes[AtDestination.target] = fs.nodes[AtDestination.target]
      ]_vars


\* arrange_templates has raised while placing entry placing
PlacementFailed ==
    ArrangeCall /\ pc = "done" /\ result.kind = "error" /\ placing >= 1

\* what reading the destination of an entry gives
ReadAt(dest) == fs.nodes[Resolve(fs.nodes, dest)]

\* C29: when the placement of entry k fails, reading the destination of each
\* entry before k gives its template's content, and the destinations of
\* entry k and of the entries after it are as they were when the call began
C29_InOrderNoRollback ==
    PlacementFailed =>
        /\ \A j \in 1..(placing - 1) :
              ReadAt(args.mappings[j].dest) =
                  RegularFile(ContentOf(args.mappings[j].template))
        /\ \A j \in placing..Len(args.mappings) :
              fs.nodes[args.mappings[j].dest] = fs.before[args.mappings[j].dest]

====
